---- MODULE Spec2Model ----
(***************************************************************************)
(* Model of the scripts of Nexus_Domain_Organization:                      *)
(*   scripts/sync_taxonomy.py                    (taxonomy synchronizer)   *)
(*   scripts/validate.py                         (validator)               *)
(*   scripts/export_domain_subdomain_indicator.py (CSV exporter)           *)
(* Python strings are sequences of one-character strings, YAML values are  *)
(* records with a type tag, files are variables.                           *)
(***************************************************************************)
EXTENDS Naturals, Sequences, FiniteSets

VARIABLES
    papers,      \* papers/*.yaml in sorted path order: a sequence of documents
    taxFile,     \* taxonomy/domains.yaml
    syncLog,     \* one record per finished sync_taxonomy call, oldest first
    vpc,         \* validate.main: "idle", "loop", "done", "nofiles", "notax",
                 \* "taxcrash" (load_taxonomy raised), "crashed" (the loop raised)
    vNext,       \* validate.main: number of paper files whose processing has begun and ended
    all_errors,  \* validate.main: the list all_errors
    printed,     \* validate.main: the error lines printed so far
    exitCode,    \* validate.main: the process exit status 0 or 1; 2 while it runs
    fnDoc,       \* a paper document handed to validate_domains_and_subdomains
    fnErrs,      \* what the last call on fnDoc returned
    fnPrev,      \* what the call before the last edit returned
    fnState,     \* "fresh", "called", "edited", "recalled"
    fnEdit,      \* the edit made to fnDoc: "none", "add", "remove", "value", "create",
                 \* "legacy_set", "legacy_remove"
    rows,        \* collect_rows: the list it returned
    xOnlyDotted, \* collect_rows: its argument only_dotted
    xpc,         \* exporter: "idle", "collected", "written", "crashed" (load_yaml raised)
    csvOut,      \* exporter main: the data rows of the CSV file it wrote
    mmCsv,       \* csv_to_markmap: the data rows of the CSV file it reads
    mmOrder,     \* csv_to_markmap: the items of --domain-order split at the commas
    mmCats,      \* csv_to_markmap: the categories handed to pd.Categorical
    mmDf,        \* csv_to_markmap: the frame df
    mmpc,        \* csv_to_markmap: "idle", "loaded", "sorted", "crashed"
    migBefore,   \* papers/*.yaml as they were before migrate_subdomains ran
    migPapers,   \* migrate_subdomains: papers/*.yaml in sorted path order
    migNext,     \* migrate_subdomains.main: number of files the loop is through with
    migNormalized, \* migrate_subdomains.main: the dict normalized of the file at hand
    migPc        \* migrate / strip: "idle", "file", "buckets", "done", "crashed",
                 \* "stripped", "stripcrashed"

valVars == <<vpc, vNext, all_errors, printed, exitCode>>
fnVars == <<fnDoc, fnErrs, fnPrev, fnState, fnEdit>>
expVars == <<rows, xOnlyDotted, xpc, csvOut>>
mmVars == <<mmCsv, mmOrder, mmCats, mmDf, mmpc>>
migVars == <<migBefore, migPapers, migNext, migNormalized, migPc>>

vars == <<papers, taxFile, syncLog, valVars, fnVars, expVars, mmVars, migVars>>

---------------------------------------------------------------------------
(* Bounds *)

MaxPapers == 2
MaxRuns == 2
MaxCsvRows == 3

---------------------------------------------------------------------------
(* Python str *)

\* the characters in use, in code point order
CharOrder ==
    <<" ", "(", ")", ".", "0", "1", "2", "3", "4", "5", "6", "7", "8", "9",
      "A", "B", "C", "D", "E", "F", "G", "H", "I", "J", "K", "L", "M", "N",
      "O", "P", "Q", "R", "S", "T", "U", "V", "W", "X", "Y", "Z", "a", "b",
      "c", "d", "e", "f", "g", "h", "i", "j", "k", "l", "m", "n", "o", "p",
      "q", "r", "s", "t", "u", "v", "w", "x", "y", "z">>

Ord(c) == CHOOSE i \in 1..Len(CharOrder) : CharOrder[i] = c

\* str.lower() on one character: "A".."Z" are 26 places below "a".."z"
LowerChar(c) ==
    IF Ord("A") <= Ord(c) /\ Ord(c) <= Ord("Z") THEN CharOrder[Ord(c) + 26] ELSE c

Lower(s) == [i \in 1..Len(s) |-> LowerChar(s[i])]

\* a < b on str: lexicographic by code point
RECURSIVE StrLess(_, _)
StrLess(a, b) ==
    IF b = <<>> THEN FALSE
    ELSE IF a = <<>> THEN TRUE
    ELSE IF a[1] # b[1] THEN Ord(a[1]) < Ord(b[1])
    ELSE StrLess(Tail(a), Tail(b))

RECURSIVE LStrip(_)
LStrip(s) == IF s # <<>> /\ s[1] = " " THEN LStrip(Tail(s)) ELSE s

RECURSIVE RStrip(_)
RStrip(s) ==
    IF s # <<>> /\ s[Len(s)] = " " THEN RStrip(SubSeq(s, 1, Len(s) - 1)) ELSE s

\* str.strip()
Strip(s) == RStrip(LStrip(s))

\* "." in s
HasDot(s) == \E i \in 1..Len(s) : s[i] = "."

\* s.startswith(p)
StartsWith(s, p) == Len(p) <= Len(s) /\ SubSeq(s, 1, Len(p)) = p

FirstDot(s) == CHOOSE i \in 1..Len(s) : s[i] = "." /\ \A j \in 1..(i - 1) : s[j] # "."

\* s.split(".", 1)[0] and [1], for s with a dot
SplitHead(s) == IF HasDot(s) THEN SubSeq(s, 1, FirstDot(s) - 1) ELSE s
SplitTail(s) == SubSeq(s, FirstDot(s) + 1, Len(s))

Dot == <<".">>

\* the sentinel "(none)"
NoneStr == <<"(", "n", "o", "n", "e", ")">>

---------------------------------------------------------------------------
(* Python list helpers *)

SeqToSet(s) == {s[i] : i \in 1..Len(s)}

\* x in list
InSeq(x, s) == \E i \in 1..Len(s) : s[i] = x

\* sorted(set of str): ascending by code point
RECURSIVE SortedStrs(_)
SortedStrs(S) ==
    IF S = {} THEN <<>>
    ELSE LET m == CHOOSE x \in S : \A y \in S \ {x} : StrLess(x, y)
         IN  <<m>> \o SortedStrs(S \ {m})

\* list(dict.fromkeys(s)): first occurrences, order kept
RECURSIVE DedupSeq(_)
DedupSeq(s) ==
    IF s = <<>> THEN <<>>
    ELSE LET r == DedupSeq(SubSeq(s, 1, Len(s) - 1))
         IN  IF InSeq(s[Len(s)], r) THEN r ELSE Append(r, s[Len(s)])

---------------------------------------------------------------------------
(* YAML documents                                                          *)
(*                                                                         *)
(* A paper file: kind is "unreadable" (yaml.safe_load raises), "null" (an  *)
(* empty document, None), "nonmap" (a non-empty list or scalar) or "map".  *)
(* Each field of a mapping has a type tag (T) and a value (V):             *)
(*   domains     domainsT  "absent" | "list" | "other"                     *)
(*   domain      domainT   "absent" | "str"  | "other"                     *)
(*   subdomains  subsT     "absent" | "dict" | "list" | "other"            *)
(*               subsV     a sequence of entries [k, vt, v]: the keys of a *)
(*                         dict with their values (vt "list" | "null" |    *)
(*                         "other"), or the items of a list (vt "null")    *)
(*   subdomain   subT      "absent" | "str"                                *)
(*   indicators  indT      "absent" | "list" | "other"                     *)
(* schemaBad: the JSON Schema validator reports a violation for the        *)
(* document (the schema file is an input, not part of the scripts).        *)
(***************************************************************************)

Entry(k, vt, v) == [k |-> k, vt |-> vt, v |-> v]

MapDoc(domainsT, domainsV, domainT, domainV, subsT, subsV, subT, subV, indT, indV, bad) ==
    [kind |-> "map", schemaBad |-> bad,
     domainsT |-> domainsT, domainsV |-> domainsV,
     domainT |-> domainT, domainV |-> domainV,
     subsT |-> subsT, subsV |-> subsV,
     subT |-> subT, subV |-> subV,
     indT |-> indT, indV |-> indV]

OtherDoc(kind, bad) ==
    [kind |-> kind, schemaBad |-> bad,
     domainsT |-> "absent", domainsV |-> <<>>,
     domainT |-> "absent", domainV |-> <<>>,
     subsT |-> "absent", subsV |-> <<>>,
     subT |-> "absent", subV |-> <<>>,
     indT |-> "absent", indV |-> <<>>]

\* isinstance(doc, dict)
IsMap(doc) == doc.kind = "map"

(* The taxonomy file: kind "absent" (no file), "nondict" (a list or a      *)
(* scalar) or "dict"; domains is the list under the key `domains`. A node  *)
(* is a mapping: hasName says whether it has the key `name` (name is <<>>  *)
(* when it has not); subsT is "absent", "list" or "other".                 *)

Node(hasName, name, subsT, subs) ==
    [hasName |-> hasName, name |-> name, subsT |-> subsT, subs |-> subs]

TaxDict(nodes) == [kind |-> "dict", domains |-> nodes]
TaxAbsent == [kind |-> "absent", domains |-> <<>>]
TaxNonDict == [kind |-> "nondict", domains |-> <<>>]

---------------------------------------------------------------------------
(* scripts/sync_taxonomy.py *)

\* `if not name: continue` is not taken
NameTruthy(n) == n.hasName /\ n.name # <<>>

\* ensure_taxonomy_struct: the nodes after setdefault("subdomains", []) and
\* the replacement of a non-list by []
EnsureNodes(nodes) ==
    [i \in 1..Len(nodes) |->
        IF NameTruthy(nodes[i]) /\ nodes[i].subsT # "list"
        THEN Node(TRUE, nodes[i].name, "list", <<>>)
        ELSE nodes[i]]

\* ensure_taxonomy_struct: idx[name] = d, a later node of the same name
\* replacing the earlier one; the value is the node's position in the list
EnsureIdx(nodes) ==
    [n \in {nodes[i].name : i \in {j \in 1..Len(nodes) : NameTruthy(nodes[j])}} |->
        CHOOSE i \in 1..Len(nodes) :
            /\ NameTruthy(nodes[i]) /\ nodes[i].name = n
            /\ \A j \in (i + 1)..Len(nodes) : ~(NameTruthy(nodes[j]) /\ nodes[j].name = n)]

\* load_yaml(tax_path) or {"version": 1, "domains": []}, then ensure_taxonomy_struct
LoadBase(file) == IF file.kind = "dict" THEN file.domains ELSE <<>>

\* collect_from_papers, one document: the domains it adds to domains_used
DocDomainsUsed(doc) ==
    IF ~IsMap(doc) THEN {}
    ELSE (IF doc.domainsT = "list"
          THEN {Strip(doc.domainsV[i]) :
                    i \in {j \in 1..Len(doc.domainsV) : doc.domainsV[j] # <<>>}}
          ELSE {})
         \cup (IF doc.domainT = "str" THEN {Strip(doc.domainV)} ELSE {})

\* collect_from_papers, one document: the keys it adds to dotted
DocDotted(doc) ==
    IF ~IsMap(doc) THEN {}
    ELSE IF doc.subsT \in {"dict", "list"}
    THEN {k \in {Strip(doc.subsV[i].k) : i \in 1..Len(doc.subsV)} : HasDot(k)}
    ELSE IF doc.subT = "str" /\ HasDot(Strip(doc.subV)) THEN {Strip(doc.subV)}
    ELSE {}

\* collect_from_papers: (dotted, domains_used); an unreadable file is skipped
CollectDotted(ps) == UNION {DocDotted(ps[i]) : i \in 1..Len(ps)}
CollectDomains(ps) == UNION {DocDomainsUsed(ps[i]) : i \in 1..Len(ps)}

Put(f, k, v) == [x \in DOMAIN f \cup {k} |-> IF x = k THEN v ELSE f[x]]

\* `if d not in idx:` append a node, index it, report it
AddDomain(st, d) ==
    IF d \in DOMAIN st.idx THEN st
    ELSE [nodes |-> Append(st.nodes, Node(TRUE, d, "list", <<>>)),
          idx |-> Put(st.idx, d, Len(st.nodes) + 1),
          addedD |-> Append(st.addedD, d),
          addedS |-> st.addedS]

RECURSIVE AddDomains(_, _)
AddDomains(st, ds) ==
    IF ds = <<>> THEN st ELSE AddDomains(AddDomain(st, Head(ds)), Tail(ds))

\* the body of `for full in sorted(dotted)`
AddSub(st, full, write_full_keys) ==
    LET domain == SplitHead(full)
        tail == SplitTail(full)
        st1 == AddDomain(st, domain)
        pos == st1.idx[domain]
        token == IF write_full_keys THEN full ELSE tail
    IN  IF InSeq(token, st1.nodes[pos].subs) THEN st1
        ELSE [nodes |-> [i \in 1..Len(st1.nodes) |->
                            IF i = pos
                            THEN Node(st1.nodes[i].hasName, st1.nodes[i].name, "list",
                                      Append(st1.nodes[i].subs, token))
                            ELSE st1.nodes[i]],
              idx |-> st1.idx,
              addedD |-> st1.addedD,
              addedS |-> Append(st1.addedS, domain \o Dot \o tail)]

RECURSIVE AddSubs(_, _, _)
AddSubs(st, keys, write_full_keys) ==
    IF keys = <<>> THEN st
    ELSE AddSubs(AddSub(st, Head(keys), write_full_keys), Tail(keys), write_full_keys)

\* sorted(dedup, key=lambda s: str(s).lower()), stable
InsertSub(r, x) ==
    LET p == Cardinality({i \in 1..Len(r) : ~StrLess(Lower(x), Lower(r[i]))})
    IN  SubSeq(r, 1, p) \o <<x>> \o SubSeq(r, p + 1, Len(r))

\* SortSubs that leaves the list as it is
SortSubs_AsIs(s) == s

RECURSIVE SortSubs(_)
SortSubs(s) ==
    IF s = <<>> THEN <<>>
    ELSE InsertSub(SortSubs(SubSeq(s, 1, Len(s) - 1)), s[Len(s)])

\* d.get("name"): None for a node without the key
NameKey(n) == <<n.hasName, n.name>>

\* the loop over tax["domains"] with `seen`: the first node of each name is
\* kept, its subdomains deduplicated and sorted when they are a list
RECURSIVE DedupNodes(_)
DedupNodes(nodes) ==
    IF nodes = <<>> THEN <<>>
    ELSE LET front == SubSeq(nodes, 1, Len(nodes) - 1)
             d == nodes[Len(nodes)]
         IN  IF \E i \in 1..Len(front) : NameKey(front[i]) = NameKey(d)
             THEN DedupNodes(front)
             ELSE Append(DedupNodes(front),
                         IF d.subsT = "list"
                         THEN Node(d.hasName, d.name, "list", SortSubs(DedupSeq(d.subs)))
                         ELSE d)

\* sorted(ordered_domains, key=lambda x: x.get("name", "")), stable
InsertNode(r, x) ==
    LET p == Cardinality({i \in 1..Len(r) : ~StrLess(x.name, r[i].name)})
    IN  SubSeq(r, 1, p) \o <<x>> \o SubSeq(r, p + 1, Len(r))

RECURSIVE SortNodes(_)
SortNodes(s) ==
    IF s = <<>> THEN <<>>
    ELSE InsertNode(SortNodes(SubSeq(s, 1, Len(s) - 1)), s[Len(s)])

\* sync_taxonomy up to the dump: the taxonomy it holds and what it reports
SyncTaxonomy(file, ps, write_full_keys) ==
    LET base == LoadBase(file)
        st0 == [nodes |-> EnsureNodes(base), idx |-> EnsureIdx(base),
                addedD |-> <<>>, addedS |-> <<>>]
        st1 == AddDomains(st0, SortedStrs(CollectDomains(ps)))
        st2 == AddSubs(st1, SortedStrs(CollectDotted(ps)), write_full_keys)
    IN  [tax |-> TaxDict(SortNodes(DedupNodes(st2.nodes))),
         added_domains |-> st2.addedD,
         added_subs |-> st2.addedS]

---------------------------------------------------------------------------
(* scripts/validate.py *)

\* load_taxonomy: what one node adds to allowed_subdomains_full
NodeFullKeys(n) ==
    IF ~NameTruthy(n) \/ n.subsT # "list" THEN {}
    ELSE {IF StartsWith(t, n.name \o Dot) THEN t ELSE n.name \o Dot \o t :
            t \in {Strip(n.subs[i]) : i \in 1..Len(n.subs)} \ {<<>>}}

\* load_taxonomy: what one node puts in allowed_subdomains_by_domain[name]
NodeTails(n) ==
    IF n.subsT # "list" THEN {}
    ELSE {IF StartsWith(t, n.name \o Dot)
          THEN SubSeq(t, Len(n.name) + 2, Len(t)) ELSE t :
            t \in {Strip(n.subs[i]) : i \in 1..Len(n.subs)} \ {<<>>}}

\* load_taxonomy, for a taxonomy file that holds a mapping
LoadTaxonomy(file) ==
    LET named == {i \in 1..Len(file.domains) : NameTruthy(file.domains[i])}
    IN  [allowed_domains |-> {file.domains[i].name : i \in named},
         allowed_subdomains_full |-> UNION {NodeFullKeys(file.domains[i]) : i \in named},
         allowed_subdomains_by_domain |->
            [d \in {file.domains[i].name : i \in named} |->
                NodeTails(file.domains[
                    CHOOSE i \in named :
                        /\ file.domains[i].name = d
                        /\ \A j \in named : file.domains[j].name = d => j <= i])]]

\* normalize_paper_domains
NormalizePaperDomains(doc) ==
    (IF doc.domainsT = "list"
     THEN {Strip(doc.domainsV[i]) :
              i \in {j \in 1..Len(doc.domainsV) : doc.domainsV[j] # <<>>}}
     ELSE {})
    \cup (IF doc.domainT = "str" THEN {Strip(doc.domainV)} ELSE {})

\* normalize_paper_subdomains: the entries it walks, keys stripped; the
\* legacy `subdomain` is read only when `subdomains` is no dict and no list
SubdomainEntries(doc) ==
    IF doc.subsT \in {"dict", "list"}
    THEN [i \in 1..Len(doc.subsV) |->
            Entry(Strip(doc.subsV[i].k),
                  IF doc.subsT = "dict" THEN doc.subsV[i].vt ELSE "null",
                  doc.subsV[i].v)]
    ELSE IF doc.subT = "str" THEN <<Entry(Strip(doc.subV), "null", <<>>)>>
    ELSE <<>>

\* KeysFull without the test `if "." in k`
KeysFull_AllKeys(doc) ==
    {SubdomainEntries(doc)[i].k : i \in 1..Len(SubdomainEntries(doc))}

\* normalize_paper_subdomains: keys_full
KeysFull(doc) ==
    {k \in {SubdomainEntries(doc)[i].k : i \in 1..Len(SubdomainEntries(doc))} : HasDot(k)}

\* normalize_paper_subdomains: mapping[k], the last assignment standing
SubMapType(doc, key) ==
    LET es == SubdomainEntries(doc)
        last == CHOOSE i \in 1..Len(es) :
                    es[i].k = key /\ \A j \in (i + 1)..Len(es) : es[j].k # key
    IN  es[last].vt

Err(kind, key) == [kind |-> kind, key |-> key]

\* validate_domains_and_subdomains, lines 111-117; a set is walked in
\* ascending order
RECURSIVE DomainNotAllowedErrs(_, _)
DomainNotAllowedErrs(ds, allowed) ==
    IF ds = <<>> THEN <<>>
    ELSE (IF Head(ds) \notin allowed
          THEN <<Err("domain_not_in_taxonomy", Head(ds))>> ELSE <<>>)
         \o DomainNotAllowedErrs(Tail(ds), allowed)

\* DomainErrs without its `if not paper_domains` branch
DomainErrs_NoMissing(doc, tax) ==
    DomainNotAllowedErrs(SortedStrs(NormalizePaperDomains(doc)), tax.allowed_domains)

DomainErrs(doc, tax) ==
    LET paper_domains == NormalizePaperDomains(doc)
    IN  IF paper_domains = {} THEN <<Err("missing_domains", <<>>)>>
        ELSE DomainNotAllowedErrs(SortedStrs(paper_domains), tax.allowed_domains)

\* KeyErrs with the two checks chained by elif, the taxonomy check first
KeyErrs_Elif(doc, tax, key) ==
    (IF key \notin tax.allowed_subdomains_full
     THEN <<Err("subdomain_not_in_taxonomy", key)>>
     ELSE IF SplitHead(key) \notin NormalizePaperDomains(doc)
     THEN <<Err("prefix_mismatch", key)>> ELSE <<>>)
    \o (IF SubMapType(doc, key) = "date"
        THEN <<Err("value_type", key)>> ELSE <<>>)

\* KeyErrs without the check against allowed_subdomains_full
KeyErrs_NoTaxonomy(doc, tax, key) ==
    (IF SplitHead(key) \notin NormalizePaperDomains(doc)
     THEN <<Err("prefix_mismatch", key)>> ELSE <<>>)
    \o (IF SubMapType(doc, key) = "date"
        THEN <<Err("value_type", key)>> ELSE <<>>)

\* validate_domains_and_subdomains, the body of `for key in sub_full_keys`
KeyErrs(doc, tax, key) ==
    (IF SplitHead(key) \notin NormalizePaperDomains(doc)
     THEN <<Err("prefix_mismatch", key)>> ELSE <<>>)
    \o (IF key \notin tax.allowed_subdomains_full
        THEN <<Err("subdomain_not_in_taxonomy", key)>> ELSE <<>>)
    \o (IF SubMapType(doc, key) = "date"
        THEN <<Err("value_type", key)>> ELSE <<>>)

RECURSIVE SubdomainErrs(_, _, _)
SubdomainErrs(doc, tax, keys) ==
    IF keys = <<>> THEN <<>>
    ELSE KeyErrs(doc, tax, Head(keys)) \o SubdomainErrs(doc, tax, Tail(keys))

\* validate_domains_and_subdomains(path, doc, tax) for a mapping doc
ValidateDomainsAndSubdomains(doc, tax) ==
    DomainErrs(doc, tax) \o SubdomainErrs(doc, tax, SortedStrs(KeysFull(doc)))

\* validate_against_schema: the messages of the JSON Schema validator
ValidateAgainstSchema(doc) ==
    IF doc.schemaBad THEN <<Err("schema", <<>>)>> ELSE <<>>

\* every error line starts with the file's path: here its position
AtFile(i, errs) ==
    [k \in 1..Len(errs) |-> [file |-> i, kind |-> errs[k].kind, key |-> errs[k].key]]

\* CannotRead that records nothing
CannotRead_Nothing(i) == <<>>

\* main, lines 155-157: what `except Exception` appends to all_errors
CannotRead(i) == <<[file |-> i, kind |-> "unreadable", key |-> <<>>]>>

\* ReportExit without the sys.exit(1)
ReportExit_AlwaysZero(errs) == 0

\* main, lines 164-170: the exit status once the loop has ended
ReportExit(errs) == IF errs # <<>> THEN 1 ELSE 0

---------------------------------------------------------------------------
(* scripts/export_domain_subdomain_indicator.py *)

NonEmpty(x) == x # <<>>

\* [_normalize_indicator_item(it) for it in v], the None results dropped
NormalizeIndicators(v) == SelectSeq([i \in 1..Len(v) |-> Strip(v[i])], NonEmpty)

\* collect_rows, lines 58-65: p_domains
PDomains(doc) ==
    LET ds == IF doc.domainsT = "list"
              THEN SelectSeq([i \in 1..Len(doc.domainsV) |-> Strip(doc.domainsV[i])],
                             NonEmpty)
              ELSE IF doc.domainT = "str" THEN <<Strip(doc.domainV)>>
              ELSE <<>>
    IN  IF ds = <<>> THEN <<NoneStr>> ELSE ds

Pair(k, inds) == [k |-> k, inds |-> inds]

\* d[k] = inds on an insertion-ordered dict held as a list of pairs
DictSet(d, k, inds) ==
    IF \E i \in 1..Len(d) : d[i].k = k
    THEN [i \in 1..Len(d) |-> IF d[i].k = k THEN Pair(k, inds) ELSE d[i]]
    ELSE Append(d, Pair(k, inds))

\* d.get(k, [])
DictGet(d, k) ==
    IF \E i \in 1..Len(d) : d[i].k = k
    THEN d[CHOOSE i \in 1..Len(d) : d[i].k = k].inds
    ELSE <<>>

\* collect_rows, lines 72-89: the loop over a mapping's items or a list's items
RECURSIVE SubsLoop(_, _, _)
SubsLoop(d, entries, isDict) ==
    IF entries = <<>> THEN d
    ELSE LET e == Head(entries)
             key == Strip(e.k)
             inds == IF isDict /\ e.vt = "list" THEN NormalizeIndicators(e.v) ELSE <<>>
         IN  SubsLoop(IF key = <<>> THEN d ELSE DictSet(d, key, inds),
                      Tail(entries), isDict)

\* collect_rows, lines 69-93: subdomain_to_inds
SubdomainToInds(doc) ==
    IF doc.subsT = "dict" THEN SubsLoop(<<>>, doc.subsV, TRUE)
    ELSE IF doc.subsT = "list" THEN SubsLoop(<<>>, doc.subsV, FALSE)
    ELSE IF doc.subT = "str" /\ Strip(doc.subV) # <<>>
    THEN <<Pair(Strip(doc.subV), <<>>)>>
    ELSE <<>>

\* collect_rows, lines 96-102: top_inds
TopInds(doc) == IF doc.indT = "list" THEN NormalizeIndicators(doc.indV) ELSE <<>>

\* collect_rows, lines 105-110: the only_dotted filter and the placeholder
FilteredSubs(doc, only_dotted) ==
    LET d0 == SubdomainToInds(doc)
        Dotted(e) == HasDot(e.k)
        d1 == IF only_dotted /\ d0 # <<>> THEN SelectSeq(d0, Dotted) ELSE d0
    IN  IF d1 = <<>> THEN <<Pair(NoneStr, <<>>)>> ELSE d1

\* Matched with every key taken, whatever its prefix
Matched_AnyKey(d, subs) ==
    IF subs = <<>> THEN <<NoneStr>> ELSE [i \in 1..Len(subs) |-> subs[i].k]

\* collect_rows, lines 115-117: matched, for one domain
Matched(d, subs) ==
    LET Hit(e) == e.k = NoneStr \/ StartsWith(e.k, d \o Dot)
        m == SelectSeq(subs, Hit)
    IN  IF m = <<>> THEN <<NoneStr>> ELSE [i \in 1..Len(m) |-> m[i].k]

\* IndsHere with no fallback on the top-level indicators
IndsHere_NoTopLevel(subs, s, top_inds) ==
    IF DictGet(subs, s) # <<>> THEN DictGet(subs, s) ELSE <<NoneStr>>

\* collect_rows, lines 123-125: inds_here
IndsHere(subs, s, top_inds) ==
    IF DictGet(subs, s) # <<>> THEN DictGet(subs, s)
    ELSE IF top_inds # <<>> THEN top_inds
    ELSE <<NoneStr>>

Row(d, s, ind, paper) == [domain |-> d, subdomain |-> s, indicator |-> ind, paper |-> paper]

\* the rows of one (d, s) pair
PairRows(d, s, subs, top_inds, paper) ==
    LET inds == IndsHere(subs, s, top_inds)
    IN  [i \in 1..Len(inds) |-> Row(d, s, inds[i], paper)]

RECURSIVE MatchedRows(_, _, _, _, _)
MatchedRows(d, ms, subs, top_inds, paper) ==
    IF ms = <<>> THEN <<>>
    ELSE PairRows(d, Head(ms), subs, top_inds, paper)
         \o MatchedRows(d, Tail(ms), subs, top_inds, paper)

RECURSIVE DomainRows(_, _, _, _)
DomainRows(ds, subs, top_inds, paper) ==
    IF ds = <<>> THEN <<>>
    ELSE MatchedRows(Head(ds), Matched(Head(ds), subs), subs, top_inds, paper)
         \o DomainRows(Tail(ds), subs, top_inds, paper)

\* `doc = load_yaml(Path(p)) or {}`: an empty document counts as {}
OrEmpty(doc) ==
    IF doc.kind = "null"
    THEN MapDoc("absent", <<>>, "absent", <<>>, "absent", <<>>, "absent", <<>>,
                "absent", <<>>, doc.schemaBad)
    ELSE doc

\* collect_rows, the body of `for p in paper_files` for a readable file
DocRows(doc0, paper, only_dotted) ==
    LET doc == OrEmpty(doc0)
    IN  IF ~IsMap(doc) THEN <<>>
        ELSE DomainRows(PDomains(doc), FilteredSubs(doc, only_dotted), TopInds(doc), paper)

\* collect_rows(only_dotted) when every file can be read; the paper id is
\* the file's position
RECURSIVE CollectRowsFrom(_, _, _)
CollectRowsFrom(ps, i, only_dotted) ==
    IF i > Len(ps) THEN <<>>
    ELSE DocRows(ps[i], i, only_dotted) \o CollectRowsFrom(ps, i + 1, only_dotted)

\* sort_frame, line 140: base
SortBase ==
    << <<"c", "h", "e", "m", "i", "c", "a", "l">>,
       <<"p", "h", "y", "s", "i", "c", "a", "l">>,
       <<"c", "l", "i", "m", "a", "t", "e">>,
       <<"s", "o", "c", "i", "a", "l">>,
       <<"b", "u", "i", "l", "t">> >>

\* the missing value of pandas: what a domain outside the categories becomes
NaN == <<"NaN">>

\* df.drop_duplicates(): the first of equal rows is kept
DropDuplicates(df) == DedupSeq(df)

\* df["domain"].astype(str).unique()
Present(df) == {df[i].domain : i \in 1..Len(df)}

\* Categories with no place for the domains outside base
Categories_NoExtras(df) == SortBase \o <<NoneStr>>

\* sort_frame, lines 143-149: categories = base + extras + ["(none)"]
Categories(df) ==
    SortBase
    \o SortedStrs({d \in Present(df) : ~InSeq(d, SortBase) /\ d # NoneStr})
    \o <<NoneStr>>

\* the code of a value in an ordered Categorical; NaN sorts after every code
CatCode(d, cats) ==
    IF InSeq(d, cats)
    THEN CHOOSE i \in 1..Len(cats) : cats[i] = d /\ \A j \in 1..(i - 1) : cats[j] # d
    ELSE Len(cats) + 1

\* df["domain"] = pd.Categorical(df["domain"], categories=cats, ordered=True)
AsCategorical(df, cats) ==
    [i \in 1..Len(df) |->
        Row(IF InSeq(df[i].domain, cats) THEN df[i].domain ELSE NaN,
            df[i].subdomain, df[i].indicator, df[i].paper)]

\* the order of sort_values(["domain", "subdomain", "indicator", "paper"]);
\* the paper ids compare as the positions of their files do
RowBefore(a, b, cats) ==
    IF CatCode(a.domain, cats) # CatCode(b.domain, cats)
    THEN CatCode(a.domain, cats) < CatCode(b.domain, cats)
    ELSE IF a.subdomain # b.subdomain THEN StrLess(a.subdomain, b.subdomain)
    ELSE IF a.indicator # b.indicator THEN StrLess(a.indicator, b.indicator)
    ELSE a.paper < b.paper

InsertRow(r, x, cats) ==
    LET p == Cardinality({i \in 1..Len(r) : ~RowBefore(x, r[i], cats)})
    IN  SubSeq(r, 1, p) \o <<x>> \o SubSeq(r, p + 1, Len(r))

\* sort_values(..., kind="mergesort"): a stable sort
RECURSIVE SortRows(_, _)
SortRows(df, cats) ==
    IF df = <<>> THEN <<>>
    ELSE InsertRow(SortRows(SubSeq(df, 1, Len(df) - 1), cats), df[Len(df)], cats)

\* sort_frame(df)
SortFrame(df) == SortRows(AsCategorical(df, Categories(df)), Categories(df))

---------------------------------------------------------------------------
(* scripts/csv_to_markmap.py *)

\* a cell of the CSV file as read_csv gives it: a string, or NaN for an
\* empty cell
CsvRow(d, sub, ind, paper) == [domain |-> d, subdomain |-> sub, indicator |-> ind, paper |-> paper]

\* _load_csv, lines 35-37: fillna("(none)"), then astype(str).str.strip()
CleanCell(c) == IF c = NaN THEN NoneStr ELSE Strip(c)

\* _load_csv, lines 35-39, for a file that has the four columns
LoadCsv(csv) ==
    DedupSeq([i \in 1..Len(csv) |->
        CsvRow(CleanCell(csv[i].domain), CleanCell(csv[i].subdomain),
               CleanCell(csv[i].indicator), CleanCell(csv[i].paper))])

\* main, lines 193-195: user_order; None is <<>> here, and line 44 treats an
\* empty list as it treats None
UserOrder(items) == SelectSeq([i \in 1..Len(items) |-> Strip(items[i])], NonEmpty)

\* _domain_categories(df, user_order)
DomainCategories(df, user_order) ==
    LET base == IF user_order # <<>> THEN user_order ELSE SortBase
    IN  base
        \o SortedStrs({d \in Present(df) : ~InSeq(d, base) /\ d # NoneStr})
        \o <<NoneStr>>

\* pd.Categorical raises ValueError when the categories are not unique
CategoriesUnique(cats) == \A i, j \in 1..Len(cats) : cats[i] = cats[j] => i = j

\* _sort_df(df, user_order) when pd.Categorical accepts the categories
SortDf(df, user_order) ==
    SortRows(AsCategorical(df, DomainCategories(df, user_order)),
             DomainCategories(df, user_order))

---------------------------------------------------------------------------
(* scripts/migrate_subdomains.py and scripts/strip_subdomains_normalized.py *)

(* The patterns of RULES use literals, \b, \s*, \w? and \.? only. A pattern *)
(* is a list of alternatives, an alternative a list of these atoms.        *)
Lit(chars) == [t |-> "lit", s |-> chars]
Opt(c) == [t |-> "opt", s |-> <<c>>]
Spaces == [t |-> "spaces", s |-> <<>>]
OptWord == [t |-> "optword", s |-> <<>>]
WordEdge == [t |-> "edge", s |-> <<>>]

Rule(alts, key) == [alts |-> alts, key |-> key]

\* \w: a letter, a digit (the underscore is not among the characters in use)
IsWord(c) == Ord("0") <= Ord(c)

\* \b at the position before s[i]
AtWordEdge(s, i) ==
    (i > 1 /\ IsWord(s[i - 1])) # (i <= Len(s) /\ IsWord(s[i]))

\* the atoms match a part of s that starts at position i
RECURSIVE MatchAt(_, _, _)
MatchAt(as, s, i) ==
    IF as = <<>> THEN TRUE
    ELSE LET a == Head(as)
             rest == Tail(as)
         IN  CASE a.t = "lit" ->
                    /\ i + Len(a.s) - 1 <= Len(s)
                    /\ SubSeq(s, i, i + Len(a.s) - 1) = a.s
                    /\ MatchAt(rest, s, i + Len(a.s))
               [] a.t = "opt" ->
                    \/ i <= Len(s) /\ s[i] = a.s[1] /\ MatchAt(rest, s, i + 1)
                    \/ MatchAt(rest, s, i)
               [] a.t = "optword" ->
                    \/ i <= Len(s) /\ IsWord(s[i]) /\ MatchAt(rest, s, i + 1)
                    \/ MatchAt(rest, s, i)
               [] a.t = "spaces" ->
                    \E j \in i..(Len(s) + 1) :
                        /\ \A k \in i..(j - 1) : s[k] = " "
                        /\ MatchAt(rest, s, j)
               [] a.t = "edge" -> AtWordEdge(s, i) /\ MatchAt(rest, s, i)

\* re.search(pat, s)
Search(alts, s) ==
    \E n \in 1..Len(alts) : \E i \in 1..(Len(s) + 1) : MatchAt(alts[n], s, i)

RULES ==
    << Rule(<< <<WordEdge, Lit(<<"p", "m", "2">>), Opt("."), Lit(<<"5">>), WordEdge>>,
            <<WordEdge, Lit(<<"n", "o", "2">>), WordEdge>>,
            <<Lit(<<"a", "i", "r">>), Spaces, Lit(<<"p", "o", "l", "l", "u", "t", "i", "o", "n">>)>>,
            <<Lit(<<"a", "m", "b", "i", "e", "n", "t">>)>> >>,
            <<"c", "h", "e", "m", "i", "c", "a", "l", ".", "a", "i", "r", "p", "o", "l", "l", "u", "t", "i", "o", "n", ".", "a", "m", "b", "i", "e", "n", "t">>),
       Rule(<< <<WordEdge, Lit(<<"l", "e", "a", "d">>), WordEdge>>,
            <<WordEdge, Lit(<<"p", "b">>), WordEdge>>,
            <<Lit(<<"m", "e", "r", "c", "u", "r", "y">>)>>,
            <<Lit(<<"h", "g">>)>>,
            <<Lit(<<"c", "a", "d", "m", "i", "u", "m">>)>>,
            <<Lit(<<"c", "d">>)>>,
            <<Lit(<<"a", "r", "s", "e", "n", "i", "c">>)>>,
            <<Lit(<<"a", "s">>)>>,
            <<Lit(<<"m", "o", "l", "y", "b", "d", "e", "n", "u", "m">>)>> >>,
            <<"c", "h", "e", "m", "i", "c", "a", "l", ".", "m", "e", "t", "a", "l", "s">>),
       Rule(<< <<Lit(<<"p", "f", "a", "s">>)>>,
            <<Lit(<<"p", "f", "o", "a">>)>>,
            <<Lit(<<"p", "f", "o", "s">>)>>,
            <<Lit(<<"p", "f", "h", "x", "s">>)>>,
            <<Lit(<<"p", "f", "n", "a">>)>>,
            <<Lit(<<"p", "f", "u", "n", "d", "a">>)>> >>,
            <<"c", "h", "e", "m", "i", "c", "a", "l", ".", "p", "e", "r", "s", "i", "s", "t", "e", "n", "t">>),
       Rule(<< <<Lit(<<"p", "c", "b">>)>>,
            <<Lit(<<"p", "b", "d", "e">>)>>,
            <<Lit(<<"d", "d", "t">>)>>,
            <<Lit(<<"d", "d", "e">>)>>,
            <<Lit(<<"h", "c", "b">>)>>,
            <<Lit(<<"o", "r", "g", "a", "n", "o", "c", "h", "l", "o", "r">>)>> >>,
            <<"c", "h", "e", "m", "i", "c", "a", "l", ".", "p", "e", "r", "s", "i", "s", "t", "e", "n", "t">>),
       Rule(<< <<Lit(<<"p", "h", "t", "h", "a", "l", "a", "t", "e">>)>>,
            <<Lit(<<"d", "e", "h", "p">>)>>,
            <<Lit(<<"m", "b", "z", "p">>)>>,
            <<Lit(<<"m", "i", "b", "p">>)>>,
            <<Lit(<<"m", "n", "b", "p">>)>> >>,
            <<"c", "h", "e", "m", "i", "c", "a", "l", ".", "p", "h", "t", "h", "a", "l", "a", "t", "e", "s">>),
       Rule(<< <<Lit(<<"p", "h", "e", "n", "o", "l">>)>>,
            <<Lit(<<"b", "i", "s", "p", "h", "e", "n", "o", "l">>)>>,
            <<Lit(<<"b", "p", "a">>)>>,
            <<Lit(<<"p", "a", "r", "a", "b", "e", "n">>)>>,
            <<Lit(<<"t", "r", "i", "c", "l", "o", "s", "a", "n">>)>> >>,
            <<"c", "h", "e", "m", "i", "c", "a", "l", ".", "p", "h", "e", "n", "o", "l", "s">>),
       Rule(<< <<WordEdge, Lit(<<"n", "o", "i", "s", "e">>), WordEdge>>,
            <<Lit(<<"d", "n", "l">>)>>,
            <<Lit(<<"l">>), OptWord, Lit(<<"n", "i", "g", "h", "t">>)>> >>,
            <<"p", "h", "y", "s", "i", "c", "a", "l", ".", "n", "o", "i", "s", "e">>),
       Rule(<< <<Lit(<<"t", "e", "m", "p", "e", "r", "a", "t", "u", "r", "e">>), WordEdge>>,
            <<Lit(<<"h", "e", "a", "t">>)>>,
            <<Lit(<<"c", "o", "l", "d">>)>>,
            <<Lit(<<"h", "u", "m", "i", "d", "i", "t", "y">>)>>,
            <<Lit(<<"m", "e", "t", "e", "o", "r", "o", "l", "o", "g">>)>> >>,
            <<"c", "l", "i", "m", "a", "t", "e", ".", "m", "e", "t", "e", "o", "r", "o", "l", "o", "g", "i", "c", "a", "l">>),
       Rule(<< <<Lit(<<"e", "x", "t", "r", "e", "m", "e">>)>>,
            <<Lit(<<"w", "i", "l", "d", "f", "i", "r", "e">>)>>,
            <<Lit(<<"d", "r", "o", "u", "g", "h", "t">>)>>,
            <<Lit(<<"h", "e", "a", "t", "w", "a", "v", "e">>)>>,
            <<Lit(<<"c", "o", "l", "d">>), Spaces, Lit(<<"s", "n", "a", "p">>)>> >>,
            <<"c", "l", "i", "m", "a", "t", "e", ".", "e", "x", "t", "r", "e", "m", "e", "s">>),
       Rule(<< <<Lit(<<"n", "d", "v", "i">>)>>,
            <<Lit(<<"g", "r", "e", "e", "n">>), Spaces, Lit(<<"s", "p", "a", "c", "e">>)>>,
            <<Lit(<<"b", "l", "u", "e">>), Spaces, Lit(<<"s", "p", "a", "c", "e">>)>>,
            <<Lit(<<"p", "a", "r", "k">>)>>,
            <<Lit(<<"g", "r", "e", "e", "n", "n", "e", "s", "s">>)>> >>,
            <<"b", "u", "i", "l", "t", ".", "e", "n", "v", "i", "r", "o", "n", "m", "e", "n", "t">>),
       Rule(<< <<Lit(<<"w", "a", "l", "k", "a", "b", "i", "l", "i", "t", "y">>)>>,
            <<Lit(<<"c", "o", "n", "n", "e", "c", "t", "i", "v", "i", "t", "y">>)>>,
            <<Lit(<<"b", "u", "i", "l", "d", "i", "n", "g">>), Spaces, Lit(<<"d", "e", "n", "s", "i", "t", "y">>)>>,
            <<Lit(<<"u", "r", "b", "a", "n">>), Spaces, Lit(<<"d", "e", "s", "i", "g", "n">>)>>,
            <<Lit(<<"l", "a", "n", "d">>), Spaces, Lit(<<"u", "s", "e">>)>>,
            <<Lit(<<"t", "r", "a", "f", "f", "i", "c">>)>> >>,
            <<"b", "u", "i", "l", "t", ".", "s", "t", "r", "u", "c", "t", ".", "u", "r", "b", "a", "n", "d", "e", "s", "i", "g", "n">>),
       Rule(<< <<Lit(<<"b", "u", "s">>)>>,
            <<Lit(<<"t", "r", "a", "n", "s", "i", "t">>)>>,
            <<Lit(<<"a", "c", "c", "e", "s", "s">>), WordEdge>> >>,
            <<"b", "u", "i", "l", "t", ".", "a", "c", "c", "e", "s", "s">>),
       Rule(<< <<Lit(<<"m", "i", "c", "r", "o", "b", "i", "o", "m", "e">>)>>,
            <<Lit(<<"1", "6", "s">>)>>,
            <<Lit(<<"s", "h", "o", "t", "g", "u", "n">>)>> >>,
            <<"b", "i", "o", "l", "o", "g", "i", "c", "a", "l", ".", "m", "i", "c", "r", "o", "b", "i", "o", "m", "e">>),
       Rule(<< <<Lit(<<"o", "m", "i", "c", "s">>)>>,
            <<Lit(<<"g", "e", "n", "o", "m", "i", "c">>)>>,
            <<Lit(<<"e", "p", "i", "g", "e", "n", "o", "m", "i", "c">>)>>,
            <<Lit(<<"t", "r", "a", "n", "s", "c", "r", "i", "p", "t", "o", "m", "i", "c">>)>>,
            <<Lit(<<"p", "r", "o", "t", "e", "o", "m", "i", "c">>)>>,
            <<Lit(<<"m", "e", "t", "a", "b", "o", "l", "o", "m", "i", "c">>)>> >>,
            <<"b", "i", "o", "l", "o", "g", "i", "c", "a", "l", ".", "o", "m", "i", "c", "s">>),
       Rule(<< <<Lit(<<"s", "m", "o", "k">>)>>,
            <<Lit(<<"a", "l", "c", "o", "h", "o", "l">>)>>,
            <<Lit(<<"d", "i", "e", "t">>)>>,
            <<Lit(<<"p", "h", "y", "s", "i", "c", "a", "l">>), Spaces, Lit(<<"a", "c", "t", "i", "v", "i", "t", "y">>)>>,
            <<Lit(<<"f", "o", "l", "i", "c">>)>> >>,
            <<"s", "o", "c", "i", "a", "l", ".", "l", "i", "f", "e", "s", "t", "y", "l", "e">>),
       Rule(<< <<Lit(<<"d", "e", "m", "o", "g", "r", "a", "p", "h", "i", "c">>)>>,
            <<Lit(<<"c", "u", "l", "t", "u", "r">>)>> >>,
            <<"s", "o", "c", "i", "a", "l", ".", "c", "u", "l", "t", "u", "r", "a", "l", ".", "d", "e", "m", "o", "g", "r", "a", "p", "h", "i", "c", "s">>),
       Rule(<< <<Lit(<<"s", "t", "r", "e", "s", "s">>)>>,
            <<Lit(<<"i", "n", "e", "q", "u", "i", "t", "y">>)>>,
            <<Lit(<<"i", "n", "j", "u", "s", "t", "i", "c", "e">>)>>,
            <<Lit(<<"a", "l", "l", "o", "s", "t", "a", "t", "i", "c">>)>> >>,
            <<"s", "o", "c", "i", "a", "l", ".", "e", "c", "o", "n", "o", "m", "i", "c", ".", "s", "t", "r", "e", "s", "s", "o", "r", "s">>) >>

\* guess_key's None
NoKey == <<>>

\* guess_key with the rules tried from the last to the first
RECURSIVE GuessFrom_LastWins(_, _)
GuessFrom_LastWins(s, n) ==
    IF n > Len(RULES) THEN NoKey
    ELSE IF GuessFrom_LastWins(s, n + 1) # NoKey THEN GuessFrom_LastWins(s, n + 1)
    ELSE IF Search(RULES[n].alts, s) THEN RULES[n].key
    ELSE NoKey

\* guess_key, lines 27-30: the loop from rule n on
RECURSIVE GuessFrom(_, _)
GuessFrom(s, n) ==
    IF n > Len(RULES) THEN NoKey
    ELSE IF Search(RULES[n].alts, s) THEN RULES[n].key
    ELSE GuessFrom(s, n + 1)

\* guess_key(item)
GuessKey(item) == GuessFrom(Lower(item), 1)

(* A paper file as migrate_subdomains sees it: kind as above; subsT is     *)
(* "absent", "dict" or "other"; subs the entries of the mapping: key k, kt  *)
(* "str" or "other" (a number, a boolean or null as key), value type vt     *)
(* "list", "null" or "scalar" with v the items (one item for a scalar);     *)
(* hasNorm and norm are the field subdomains_normalized, a list of          *)
(* [k, inds] pairs in key order; the other fields are left out.             *)
MEntry(k, kt, vt, v) == [k |-> k, kt |-> kt, vt |-> vt, v |-> v]

MigDoc(kind, subsT, subs, hasNorm, norm) ==
    [kind |-> kind, subsT |-> subsT, subs |-> subs, hasNorm |-> hasNorm, norm |-> norm]

\* ensure_list(v)
EnsureList(e) == IF e.vt = "null" THEN <<>> ELSE e.v

Unmapped == <<".", "U", "N", "M", "A", "P", "P", "E", "D">>

\* normalized.setdefault(k, []) followed by extend / append
DictExtend(d, k, items) ==
    IF \E i \in 1..Len(d) : d[i].k = k
    THEN [i \in 1..Len(d) |-> IF d[i].k = k THEN Pair(k, d[i].inds \o items) ELSE d[i]]
    ELSE Append(d, Pair(k, items))

\* main, lines 58-67: the items of one group key
RECURSIVE PlaceItems(_, _, _)
PlaceItems(d, k, items) ==
    IF items = <<>> THEN d
    ELSE LET it == Head(items)
             key == GuessKey(it)
         IN  PlaceItems(DictExtend(d, IF key # NoKey THEN key ELSE k \o Unmapped, <<it>>),
                        k, Tail(items))

\* main, lines 50-67: the loop over subs.items(), every key a str
RECURSIVE Buckets(_, _)
Buckets(d, entries) ==
    IF entries = <<>> THEN d
    ELSE LET e == Head(entries)
         IN  Buckets(IF HasDot(e.k) THEN DictExtend(d, e.k, EnsureList(e))
                     ELSE PlaceItems(d, e.k, EnsureList(e)),
                     Tail(entries))

\* `"." in k` raises TypeError for a key that is no str
KeyRaises(entries) == \E i \in 1..Len(entries) : entries[i].kt # "str"

\* main, lines 70-78: each bucket without repeats, sorted by lower case
DedupSorted(d) == [i \in 1..Len(d) |-> Pair(d[i].k, SortSubs(DedupSeq(d[i].inds)))]

\* main, line 81: dict(sorted(normalized.items()))
SortedItems(d) ==
    LET ks == SortedStrs({d[i].k : i \in 1..Len(d)})
    IN  [n \in 1..Len(ks) |-> d[CHOOSE i \in 1..Len(d) : d[i].k = ks[n]]]

\* main, lines 69-83: the document written back
Migrated(doc, normalized) ==
    MigDoc(doc.kind, doc.subsT, doc.subs, TRUE, SortedItems(DedupSorted(normalized)))

\* strip_subdomains_normalized, lines 5-7, on one document
Stripped(doc) ==
    IF doc.kind = "map" /\ doc.hasNorm
    THEN MigDoc(doc.kind, doc.subsT, doc.subs, FALSE, <<>>)
    ELSE doc

---------------------------------------------------------------------------
(* The strings and documents the model draws its inputs from *)

sA == <<"a">>
sBuilt == <<"b", "u", "i", "l", "t">>
sChemical == <<"c", "h", "e", "m", "i", "c", "a", "l">>
kChemM == <<"c", "h", "e", "m", "i", "c", "a", "l", ".", "m">>
sB == <<"b">>
sZ == <<"z">>
sAB == <<"a", ".", "b">>
sGrp == <<"c">>
kAM == <<"a", ".", "m">>
kAN == <<"a", ".", "n">>
kAUpper == <<"a", ".", "M">>
kBN == <<"b", ".", "n">>
kZQ == <<"z", ".", "q">>
kAAX == <<"a", ".", "a", ".", "x">>
kABC == <<"a", ".", "b", ".", "c">>
iM == <<"m">>
iN == <<"n">>
iQ == <<"q">>

NoDoc == OtherDoc("null", FALSE)

\* paper documents of the synchronizer runs
SyncDocs ==
    { MapDoc("list", <<sA>>, "absent", <<>>, "dict", <<Entry(kAM, "list", <<iM>>)>>,
             "absent", <<>>, "absent", <<>>, FALSE),
      MapDoc("absent", <<>>, "str", <<"b", " ">>, "list",
             <<Entry(kBN, "null", <<>>), Entry(sGrp, "null", <<>>)>>,
             "absent", <<>>, "absent", <<>>, FALSE),
      MapDoc("absent", <<>>, "str", <<>>, "absent", <<>>,
             "absent", <<>>, "absent", <<>>, FALSE),
      MapDoc("list", <<sA>>, "absent", <<>>, "absent", <<>>,
             "str", kAUpper, "absent", <<>>, FALSE),
      OtherDoc("unreadable", FALSE),
      OtherDoc("nonmap", FALSE) }

\* taxonomy files of the synchronizer runs
SyncTaxes ==
    { TaxAbsent,
      TaxDict(<<>>),
      TaxDict(<<Node(TRUE, sA, "list", <<iM>>)>>),
      TaxDict(<<Node(TRUE, sA, "list", <<iN>>), Node(TRUE, sA, "list", <<iQ>>)>>),
      TaxDict(<<Node(TRUE, sB, "other", <<>>), Node(FALSE, <<>>, "list", <<iQ>>)>>),
      TaxDict(<<Node(TRUE, sZ, "absent", <<>>), Node(TRUE, sA, "list", <<iM, kAN, iM>>)>>) }

\* paper documents of the validator runs
ValDocs ==
    { OtherDoc("unreadable", FALSE),
      OtherDoc("null", FALSE),
      OtherDoc("nonmap", TRUE),
      MapDoc("list", <<sA>>, "absent", <<>>, "dict", <<Entry(kAM, "list", <<iM>>)>>,
             "absent", <<>>, "absent", <<>>, FALSE),
      MapDoc("absent", <<>>, "absent", <<>>, "absent", <<>>,
             "absent", <<>>, "list", <<iM>>, FALSE),
      MapDoc("absent", <<>>, "str", <<" ", "a">>, "list",
             <<Entry(kAN, "null", <<>>), Entry(sGrp, "null", <<>>)>>,
             "absent", <<>>, "absent", <<>>, FALSE),
      MapDoc("list", <<sA>>, "absent", <<>>, "dict",
             <<Entry(kZQ, "list", <<iQ>>), Entry(kBN, "date", <<>>),
               Entry(sGrp, "date", <<>>)>>,
             "absent", <<>>, "absent", <<>>, FALSE),
      MapDoc("list", <<sA>>, "absent", <<>>, "absent", <<>>,
             "str", kZQ, "absent", <<>>, FALSE),
      MapDoc("list", <<sA>>, "absent", <<>>, "dict", <<Entry(kAM, "list", <<iM>>)>>,
             "str", kZQ, "absent", <<>>, FALSE),
      MapDoc("list", <<sA>>, "absent", <<>>, "dict", <<Entry(kABC, "null", <<>>)>>,
             "absent", <<>>, "absent", <<>>, FALSE),
      MapDoc("list", <<sB, <<>>>>, "absent", <<>>, "dict", <<Entry(kBN, "date", <<>>)>>,
             "absent", <<>>, "absent", <<>>, FALSE),
      MapDoc("list", <<sA>>, "absent", <<>>, "absent", <<>>,
             "absent", <<>>, "absent", <<>>, TRUE) }

\* taxonomy files of the validator runs
ValTaxes ==
    { TaxDict(<<Node(TRUE, sA, "list", <<iM, kAN>>), Node(TRUE, sZ, "list", <<iQ>>)>>),
      TaxDict(<<Node(TRUE, sA, "other", <<>>), Node(TRUE, sAB, "list", <<sGrp>>)>>),
      TaxDict(<<>>),
      TaxAbsent,
      TaxNonDict }

\* paper documents of the runs of the synchronizer followed by the validator
PipeDocs ==
    { OtherDoc("unreadable", FALSE),
      MapDoc("list", <<sA>>, "absent", <<>>, "dict", <<Entry(kAM, "list", <<iM>>)>>,
             "absent", <<>>, "absent", <<>>, FALSE),
      MapDoc("list", <<sA>>, "absent", <<>>, "dict", <<Entry(kAAX, "list", <<iM>>)>>,
             "absent", <<>>, "absent", <<>>, FALSE),
      MapDoc("absent", <<>>, "str", <<"b", " ">>, "list",
             <<Entry(kBN, "null", <<>>), Entry(sGrp, "null", <<>>)>>,
             "absent", <<>>, "absent", <<>>, FALSE),
      MapDoc("absent", <<>>, "absent", <<>>, "absent", <<>>,
             "absent", <<>>, "list", <<iM>>, FALSE) }

\* taxonomy files the synchronizer starts from in these runs
PipeTaxes == {TaxAbsent, TaxDict(<<>>)}

\* paper documents of the exporter runs
ExpDocs ==
    { MapDoc("list", <<sA>>, "absent", <<>>, "dict", <<Entry(kAM, "list", <<iM>>)>>,
             "absent", <<>>, "absent", <<>>, FALSE),
      MapDoc("absent", <<>>, "str", sB, "absent", <<>>,
             "absent", <<>>, "list", <<iN>>, FALSE),
      MapDoc("list", <<sA, sB, <<" ">>>>, "absent", <<>>, "dict",
             <<Entry(kAM, "list", <<iM, <<" ">>>>), Entry(kBN, "list", <<>>),
               Entry(NoneStr, "list", <<iQ>>)>>,
             "absent", <<>>, "list", <<iN>>, FALSE),
      MapDoc("list", <<sA>>, "str", sB, "dict", <<Entry(kBN, "list", <<iN>>)>>,
             "absent", <<>>, "absent", <<>>, FALSE),
      MapDoc("list", <<>>, "str", sB, "absent", <<>>,
             "absent", <<>>, "absent", <<>>, FALSE),
      MapDoc("list", <<sA>>, "absent", <<>>, "list",
             <<Entry(kAM, "null", <<>>), Entry(sGrp, "null", <<>>)>>,
             "absent", <<>>, "absent", <<>>, FALSE),
      MapDoc("list", <<sA>>, "absent", <<>>, "absent", <<>>,
             "str", kZQ, "list", <<iN, iM>>, FALSE),
      MapDoc("list", <<sA>>, "absent", <<>>, "dict", <<Entry(sGrp, "list", <<iM>>)>>,
             "absent", <<>>, "absent", <<>>, FALSE),
      MapDoc("list", <<sA>>, "absent", <<>>, "dict",
             <<Entry(kAM, "list", <<iM>>), Entry(<<" ">> \o kAM, "date", <<>>)>>,
             "absent", <<>>, "list", <<iQ>>, FALSE),
      MapDoc("list", <<sBuilt, sA>>, "absent", <<>>, "absent", <<>>,
             "absent", <<>>, "list", <<iN>>, FALSE),
      MapDoc("list", <<sZ, sChemical, sChemical>>, "absent", <<>>, "dict",
             <<Entry(kChemM, "list", <<iN, iM>>)>>,
             "absent", <<>>, "absent", <<>>, FALSE),
      OtherDoc("null", FALSE),
      OtherDoc("nonmap", FALSE),
      OtherDoc("unreadable", FALSE) }

\* rows of the CSV files csv_to_markmap is run on
MmRows ==
    { CsvRow(sChemical, kChemM, iM, <<"p">>),
      CsvRow(sBuilt, NoneStr, iN, <<"p">>),
      CsvRow(<<" ", "a">>, kAM, iM, <<"q">>),
      CsvRow(NoneStr, NoneStr, iN, <<"q">>),
      CsvRow(NaN, NaN, iQ, <<"q">>),
      CsvRow(sZ, kZQ, iQ, <<"p">>) }

\* the values of --domain-order, split at the commas; <<>> is no flag
MmOrders ==
    { <<>>,
      <<sBuilt, sChemical>>,
      <<sChemical, NoneStr>>,
      <<sA, sBuilt, sA>>,
      <<<<" ", "z", " ">>, <<" ">>, sChemical>> }

iPm == <<"P", "M", "2", ".", "5", " ", "e", "x", "p", "o", "s", "u", "r", "e">>
iAmbNoise == <<"a", "m", "b", "i", "e", "n", "t", " ", "n", "o", "i", "s", "e">>
iLead == <<"L", "e", "a", "d">>
iFoo == <<"f", "o", "o">>
iZinc == <<"z", "i", "n", "c">>
kMetals == <<"c", "h", "e", "m", "i", "c", "a", "l", ".", "m", "e", "t", "a", "l", "s">>

\* paper documents of the migration runs
MigDocs ==
    { MigDoc("map", "dict",
             <<MEntry(sGrp, "str", "list", <<iPm, iFoo, iFoo>>),
               MEntry(kAM, "str", "list", <<iM, iM>>)>>, FALSE, <<>>),
      MigDoc("map", "dict",
             <<MEntry(sChemical, "str", "list", <<iAmbNoise, iLead, iFoo>>),
               MEntry(kMetals, "str", "scalar", <<iZinc>>),
               MEntry(sB, "str", "null", <<>>)>>, FALSE, <<>>),
      MigDoc("map", "dict",
             <<MEntry(kAM, "str", "list", <<iM>>),
               MEntry(<<"5">>, "other", "list", <<iFoo>>)>>, FALSE, <<>>),
      MigDoc("map", "dict", <<MEntry(kAM, "str", "list", <<iM>>)>>,
             TRUE, <<Pair(kZQ, <<iQ>>)>>),
      MigDoc("map", "other", <<>>, FALSE, <<>>),
      MigDoc("map", "absent", <<>>, TRUE, <<Pair(kZQ, <<iQ>>)>>),
      MigDoc("null", "absent", <<>>, FALSE, <<>>),
      MigDoc("unreadable", "absent", <<>>, FALSE, <<>>) }

\* the lists of at most n documents drawn from D
SeqsUpTo(D, n) == UNION {[1..k -> D] : k \in 0..n}

---------------------------------------------------------------------------
(* Runs of the synchronizer *)

InitIdle ==
    /\ syncLog = <<>>
    /\ vpc = "idle" /\ vNext = 0 /\ all_errors = <<>> /\ printed = <<>>
    /\ exitCode = 2
    /\ fnDoc = NoDoc /\ fnErrs = <<>> /\ fnPrev = <<>> /\ fnState = "fresh"
    /\ fnEdit = "none"
    /\ rows = <<>> /\ xOnlyDotted = FALSE /\ xpc = "idle" /\ csvOut = <<>>
    /\ mmCsv = <<>> /\ mmOrder = <<>> /\ mmCats = <<>> /\ mmDf = <<>> /\ mmpc = "idle"
    /\ migBefore = <<>> /\ migPapers = <<>> /\ migNext = 0
    /\ migNormalized = <<>> /\ migPc = "idle"

InitSync ==
    /\ papers \in SeqsUpTo(SyncDocs, MaxPapers)
    /\ taxFile \in SyncTaxes
    /\ InitIdle

\* Dumped with the file written in a dry run too
Dumped_Always(file, tax, dry_run) == tax

\* sync_taxonomy, lines 163-166: the file after the call
Dumped(file, tax, dry_run) == IF dry_run THEN file ELSE tax

\* one call of sync_taxonomy(tax_path, papers_glob, write_full_keys, dry_run)
SyncRun ==
    /\ Len(syncLog) < MaxRuns
    /\ \E write_full_keys \in BOOLEAN, dry_run \in BOOLEAN :
        LET r == SyncTaxonomy(taxFile, papers, write_full_keys)
        IN  /\ taxFile' = Dumped(taxFile, r.tax, dry_run)
            /\ syncLog' = Append(syncLog,
                    [write_full_keys |-> write_full_keys, dry_run |-> dry_run,
                     before |-> taxFile, tax |-> r.tax,
                     added_domains |-> r.added_domains, added_subs |-> r.added_subs])
    /\ UNCHANGED <<papers, valVars, fnVars, expVars, mmVars, migVars>>

NextSync == SyncRun

SpecSync == InitSync /\ [][NextSync]_vars

---------------------------------------------------------------------------
(* A run of the validator: validate.main. The schema file exists. *)

InitValidate ==
    /\ papers \in SeqsUpTo(ValDocs, MaxPapers)
    /\ taxFile \in ValTaxes
    /\ InitIdle

\* main, lines 136-149: the files are looked up, the taxonomy is loaded
ValStart ==
    /\ vpc = "idle"
    /\ vpc' = IF taxFile.kind = "absent" THEN "notax"
              ELSE IF taxFile.kind # "dict" THEN "taxcrash"
              ELSE IF papers = <<>> THEN "nofiles"
              ELSE "loop"
    /\ exitCode' = IF taxFile.kind = "dict" /\ papers # <<>> THEN 2 ELSE 1
    /\ UNCHANGED <<papers, taxFile, syncLog, vNext, all_errors, printed,
                   fnVars, expVars, mmVars, migVars>>

\* main, lines 152-162: one pass of `for path in files`
ValFile ==
    /\ vpc = "loop"
    /\ vNext < Len(papers)
    /\ LET i == vNext + 1
           doc == papers[i]
       IN  IF doc.kind = "unreadable"
           THEN /\ all_errors' = all_errors \o CannotRead(i)
                /\ vNext' = i
                /\ UNCHANGED <<vpc, exitCode>>
           ELSE IF ~IsMap(doc)
           THEN \* normalize_paper_domains / normalize_paper_subdomains raise
                /\ all_errors' = all_errors \o AtFile(i, ValidateAgainstSchema(doc))
                /\ vpc' = "crashed"
                /\ exitCode' = 1
                /\ UNCHANGED vNext
           ELSE /\ all_errors' = all_errors
                        \o AtFile(i, ValidateAgainstSchema(doc))
                        \o AtFile(i, ValidateDomainsAndSubdomains(doc, LoadTaxonomy(taxFile)))
                /\ vNext' = i
                /\ UNCHANGED <<vpc, exitCode>>
    /\ UNCHANGED <<papers, taxFile, syncLog, printed, fnVars, expVars, mmVars, migVars>>

\* main, lines 164-170: the report and the exit
ValReport ==
    /\ vpc = "loop"
    /\ vNext = Len(papers)
    /\ vpc' = "done"
    /\ printed' = all_errors
    /\ exitCode' = ReportExit(all_errors)
    /\ UNCHANGED <<papers, taxFile, syncLog, vNext, all_errors, fnVars, expVars, mmVars, migVars>>

NextValidate == ValStart \/ ValFile \/ ValReport

SpecValidate == InitValidate /\ [][NextValidate]_vars

---------------------------------------------------------------------------
(* The synchronizer run on a paper set, then the validator on the same
   papers and the taxonomy file the synchronizer left *)

InitPipeline ==
    /\ papers \in SeqsUpTo(PipeDocs, MaxPapers)
    /\ taxFile \in PipeTaxes
    /\ InitIdle

\* sync_taxonomy is called before the validator is started
PipeSync ==
    /\ vpc = "idle"
    /\ SyncRun

NextPipeline == PipeSync \/ ValStart \/ ValFile \/ ValReport

SpecPipeline == InitPipeline /\ [][NextPipeline]_vars

---------------------------------------------------------------------------
(* validate_domains_and_subdomains called on one paper, the paper edited in  *)
(* its group (undotted) subdomain keys, and the function called again.      *)

WithSubs(doc, subsT, subsV) ==
    MapDoc(doc.domainsT, doc.domainsV, doc.domainT, doc.domainV, subsT, subsV,
           doc.subT, doc.subV, doc.indT, doc.indV, doc.schemaBad)

WithLegacy(doc, subT, subV) ==
    MapDoc(doc.domainsT, doc.domainsV, doc.domainT, doc.domainV, doc.subsT, doc.subsV,
           subT, subV, doc.indT, doc.indV, doc.schemaBad)

RemoveAt(q, i) == SubSeq(q, 1, i - 1) \o SubSeq(q, i + 1, Len(q))

SetAt(q, i, x) == [j \in 1..Len(q) |-> IF j = i THEN x ELSE q[j]]

\* undotted keys an edit may add
GroupKeys == {sGrp, <<"q", " ">>}

\* the values an edit may give an undotted key of a mapping
GroupValues == {Entry(<<>>, "list", <<iM>>), Entry(<<>>, "date", <<>>),
                Entry(<<>>, "null", <<>>)}

\* the positions of the undotted keys of `subdomains`
GroupAt(doc) == {i \in 1..Len(doc.subsV) : ~HasDot(Strip(doc.subsV[i].k))}

\* the edits of one undotted subdomain key: [doc, edit]
GroupKeyEdits(doc) ==
    {[doc |-> WithSubs(doc, doc.subsT,
                       Append(doc.subsV,
                              IF doc.subsT = "dict" THEN Entry(k, x.vt, x.v)
                              ELSE Entry(k, "null", <<>>))),
      edit |-> "add"] :
        k \in {g \in GroupKeys : doc.subsT \in {"dict", "list"}
                                 /\ \A i \in 1..Len(doc.subsV) : doc.subsV[i].k # g},
        x \in GroupValues}
    \cup {[doc |-> WithSubs(doc, doc.subsT, RemoveAt(doc.subsV, i)), edit |-> "remove"] :
            i \in {j \in GroupAt(doc) : doc.subsT \in {"dict", "list"}}}
    \cup {[doc |-> WithSubs(doc, "dict",
                            SetAt(doc.subsV, i, Entry(doc.subsV[i].k, x.vt, x.v))),
           edit |-> "value"] :
            i \in {j \in GroupAt(doc) : doc.subsT = "dict"},
            x \in {y \in GroupValues : doc.subsT = "dict"}}
    \cup {[doc |-> WithSubs(doc, "dict", <<Entry(k, x.vt, x.v)>>), edit |-> "create"] :
            k \in {g \in GroupKeys : doc.subsT = "absent"}, x \in GroupValues}
    \cup {[doc |-> WithLegacy(doc, "str", k), edit |-> "legacy_set"] :
            k \in {g \in GroupKeys :
                      doc.subT = "absent" \/ ~HasDot(Strip(doc.subV))}}
    \cup {[doc |-> WithLegacy(doc, "absent", <<>>), edit |-> "legacy_remove"] :
            k \in {g \in {<<>>} : doc.subT = "str" /\ ~HasDot(Strip(doc.subV))}}

InitEdit ==
    /\ papers = <<>>
    /\ taxFile \in {t \in ValTaxes : t.kind = "dict"}
    /\ syncLog = <<>>
    /\ vpc = "idle" /\ vNext = 0 /\ all_errors = <<>> /\ printed = <<>>
    /\ exitCode = 2
    /\ fnDoc \in {d \in ValDocs : IsMap(d)}
    /\ fnErrs = <<>> /\ fnPrev = <<>> /\ fnState = "fresh" /\ fnEdit = "none"
    /\ rows = <<>> /\ xOnlyDotted = FALSE /\ xpc = "idle" /\ csvOut = <<>>
    /\ mmCsv = <<>> /\ mmOrder = <<>> /\ mmCats = <<>> /\ mmDf = <<>> /\ mmpc = "idle"
    /\ migBefore = <<>> /\ migPapers = <<>> /\ migNext = 0
    /\ migNormalized = <<>> /\ migPc = "idle"

\* errs = validate_domains_and_subdomains(path, fnDoc, load_taxonomy())
FnValidate ==
    /\ fnState \in {"fresh", "edited"}
    /\ fnErrs' = ValidateDomainsAndSubdomains(fnDoc, LoadTaxonomy(taxFile))
    /\ fnState' = IF fnState = "fresh" THEN "called" ELSE "recalled"
    /\ UNCHANGED <<papers, taxFile, syncLog, valVars, fnDoc, fnPrev, fnEdit, expVars, mmVars, migVars>>

\* the paper file is edited by hand: one undotted subdomain key is added,
\* removed or given another value
EditGroupKey ==
    /\ fnState = "called"
    /\ \E e \in GroupKeyEdits(fnDoc) :
          /\ fnDoc' = e.doc
          /\ fnEdit' = e.edit
    /\ fnPrev' = fnErrs
    /\ fnState' = "edited"
    /\ UNCHANGED <<papers, taxFile, syncLog, valVars, fnErrs, expVars, mmVars, migVars>>

NextEdit == FnValidate \/ EditGroupKey

SpecEdit == InitEdit /\ [][NextEdit]_vars

---------------------------------------------------------------------------
(* A run of the exporter *)

InitExport ==
    /\ papers \in SeqsUpTo(ExpDocs, MaxPapers)
    /\ taxFile = TaxAbsent
    /\ InitIdle

\* rows = collect_rows(only_dotted); load_yaml raises on a file it cannot parse
CollectRows ==
    /\ xpc = "idle"
    /\ \E only_dotted \in BOOLEAN :
          /\ xOnlyDotted' = only_dotted
          /\ IF \E i \in 1..Len(papers) : papers[i].kind = "unreadable"
             THEN xpc' = "crashed" /\ rows' = <<>>
             ELSE xpc' = "collected" /\ rows' = CollectRowsFrom(papers, 1, only_dotted)
    /\ UNCHANGED <<papers, taxFile, syncLog, valVars, fnVars, csvOut, mmVars, migVars>>

\* main, lines 165-173: the frame is deduplicated, sorted and written
WriteCsv ==
    /\ xpc = "collected"
    /\ csvOut' = SortFrame(DropDuplicates(rows))
    /\ xpc' = "written"
    /\ UNCHANGED <<papers, taxFile, syncLog, valVars, fnVars, rows, xOnlyDotted,
                   mmVars, migVars>>

NextExport == CollectRows \/ WriteCsv

SpecExport == InitExport /\ [][NextExport]_vars

---------------------------------------------------------------------------
(* A run of the mindmap exporter: csv_to_markmap.main *)

InitMarkmap ==
    /\ papers = <<>> /\ taxFile = TaxAbsent
    /\ syncLog = <<>>
    /\ vpc = "idle" /\ vNext = 0 /\ all_errors = <<>> /\ printed = <<>>
    /\ exitCode = 2
    /\ fnDoc = NoDoc /\ fnErrs = <<>> /\ fnPrev = <<>> /\ fnState = "fresh"
    /\ fnEdit = "none"
    /\ rows = <<>> /\ xOnlyDotted = FALSE /\ xpc = "idle" /\ csvOut = <<>>
    /\ mmCsv \in SeqsUpTo(MmRows, MaxCsvRows)
    /\ mmOrder \in MmOrders
    /\ mmCats = <<>> /\ mmDf = <<>> /\ mmpc = "idle"
    /\ migBefore = <<>> /\ migPapers = <<>> /\ migNext = 0
    /\ migNormalized = <<>> /\ migPc = "idle"

\* main, lines 197-201: df = _load_csv(csv_path)
MmLoad ==
    /\ mmpc = "idle"
    /\ mmDf' = LoadCsv(mmCsv)
    /\ mmpc' = "loaded"
    /\ UNCHANGED <<papers, taxFile, syncLog, valVars, fnVars, expVars,
                   mmCsv, mmOrder, mmCats, migVars>>

\* main, line 203: df = _sort_df(df, user_order); a ValueError of
\* pd.Categorical is caught nowhere
MmSort ==
    /\ mmpc = "loaded"
    /\ mmCats' = DomainCategories(mmDf, UserOrder(mmOrder))
    /\ IF CategoriesUnique(DomainCategories(mmDf, UserOrder(mmOrder)))
       THEN mmDf' = SortDf(mmDf, UserOrder(mmOrder)) /\ mmpc' = "sorted"
       ELSE mmDf' = mmDf /\ mmpc' = "crashed"
    /\ UNCHANGED <<papers, taxFile, syncLog, valVars, fnVars, expVars,
                   mmCsv, mmOrder, migVars>>

NextMarkmap == MmLoad \/ MmSort

SpecMarkmap == InitMarkmap /\ [][NextMarkmap]_vars

---------------------------------------------------------------------------
(* A run of migrate_subdomains.main, and of strip_subdomains_normalized     *)
(* after it                                                               *)

InitMigrate ==
    /\ papers = <<>> /\ taxFile = TaxAbsent
    /\ syncLog = <<>>
    /\ vpc = "idle" /\ vNext = 0 /\ all_errors = <<>> /\ printed = <<>>
    /\ exitCode = 2
    /\ fnDoc = NoDoc /\ fnErrs = <<>> /\ fnPrev = <<>> /\ fnState = "fresh"
    /\ fnEdit = "none"
    /\ rows = <<>> /\ xOnlyDotted = FALSE /\ xpc = "idle" /\ csvOut = <<>>
    /\ mmCsv = <<>> /\ mmOrder = <<>> /\ mmCats = <<>> /\ mmDf = <<>> /\ mmpc = "idle"
    /\ migBefore \in SeqsUpTo(MigDocs, MaxPapers)
    /\ migPapers = migBefore
    /\ migNext = 0 /\ migNormalized = <<>> /\ migPc = "idle"

\* main, line 40: the files are listed
MigStart ==
    /\ migPc = "idle"
    /\ migPc' = "file"
    /\ UNCHANGED <<papers, taxFile, syncLog, valVars, fnVars, expVars, mmVars,
                   migBefore, migPapers, migNext, migNormalized>>

\* main, lines 41-67: the next file is loaded and its buckets are filled;
\* yaml.safe_load, doc.get and `"." in k` raise, caught nowhere
MigFile ==
    /\ migPc = "file"
    /\ migNext < Len(migPapers)
    /\ LET doc == migPapers[migNext + 1]
       IN  IF doc.kind # "map"
           THEN migPc' = "crashed" /\ UNCHANGED <<migNext, migNormalized>>
           ELSE IF doc.subsT # "dict"
           THEN migNext' = migNext + 1 /\ UNCHANGED <<migPc, migNormalized>>
           ELSE IF KeyRaises(doc.subs)
           THEN migPc' = "crashed" /\ UNCHANGED <<migNext, migNormalized>>
           ELSE /\ migNormalized' = Buckets(<<>>, doc.subs)
                /\ migPc' = "buckets"
                /\ UNCHANGED migNext
    /\ UNCHANGED <<papers, taxFile, syncLog, valVars, fnVars, expVars, mmVars,
                   migBefore, migPapers>>

\* main, lines 69-85: the buckets are tidied and the file is written back
MigWrite ==
    /\ migPc = "buckets"
    /\ migPapers' = [i \in 1..Len(migPapers) |->
                        IF i = migNext + 1
                        THEN Migrated(migPapers[i], migNormalized)
                        ELSE migPapers[i]]
    /\ migNext' = migNext + 1
    /\ migNormalized' = <<>>
    /\ migPc' = "file"
    /\ UNCHANGED <<papers, taxFile, syncLog, valVars, fnVars, expVars, mmVars,
                   migBefore>>

\* main: the loop has ended
MigEnd ==
    /\ migPc = "file"
    /\ migNext = Len(migPapers)
    /\ migPc' = "done"
    /\ UNCHANGED <<papers, taxFile, syncLog, valVars, fnVars, expVars, mmVars,
                   migBefore, migPapers, migNext, migNormalized>>

\* strip_subdomains_normalized run after the migration: glob.glob gives the
\* files in any order and yaml.safe_load raises on a file it cannot parse, so
\* with such a file any set of the other files may have been done before it
StripNormalized ==
    /\ migPc \in {"done", "crashed"}
    /\ IF \E i \in 1..Len(migPapers) : migPapers[i].kind = "unreadable"
       THEN /\ \E done \in SUBSET {i \in 1..Len(migPapers) :
                                      migPapers[i].kind # "unreadable"} :
                  migPapers' = [i \in 1..Len(migPapers) |->
                                   IF i \in done THEN Stripped(migPapers[i])
                                   ELSE migPapers[i]]
            /\ migPc' = "stripcrashed"
       ELSE /\ migPapers' = [i \in 1..Len(migPapers) |-> Stripped(migPapers[i])]
            /\ migPc' = "stripped"
    /\ UNCHANGED <<papers, taxFile, syncLog, valVars, fnVars, expVars, mmVars,
                   migBefore, migNext, migNormalized>>

NextMigrate == MigStart \/ MigFile \/ MigWrite \/ MigEnd \/ StripNormalized

SpecMigrate == InitMigrate /\ [][NextMigrate]_vars

---------------------------------------------------------------------------
(* Claims about the synchronizer *)

\* the names of a taxonomy file's domain nodes
TaxNames(file) ==
    {file.domains[i].name : i \in {j \in 1..Len(file.domains) : file.domains[j].hasName}}

\* the (domain, subdomain) entries of a taxonomy file
TaxEntries(file) ==
    UNION {{<<file.domains[i].name, file.domains[i].subs[k]>> :
                k \in 1..Len(file.domains[i].subs)} :
            i \in {j \in 1..Len(file.domains) :
                      file.domains[j].hasName /\ file.domains[j].subsT = "list"}}

\* C1: two successive non-dry runs with the same write_full_keys setting on
\* the same papers: the second run reports no added domain and no added
\* subdomain and writes the taxonomy the first run wrote.
C1_SecondRunAddsNothing ==
    \A i \in 1..(Len(syncLog) - 1) :
        ( /\ ~syncLog[i].dry_run /\ ~syncLog[i + 1].dry_run
          /\ syncLog[i].write_full_keys = syncLog[i + 1].write_full_keys )
        => /\ syncLog[i + 1].added_domains = <<>>
           /\ syncLog[i + 1].added_subs = <<>>
           /\ syncLog[i + 1].tax = syncLog[i].tax

\* C2: every domain name and every (domain, subdomain) entry of the taxonomy
\* before a run is in the taxonomy after it.
C2_NeverRemovesEntries ==
    \A i \in 1..Len(syncLog) :
        ~syncLog[i].dry_run =>
            /\ TaxNames(syncLog[i].before) \subseteq TaxNames(syncLog[i].tax)
            /\ TaxEntries(syncLog[i].before) \subseteq TaxEntries(syncLog[i].tax)

\* C3: after a non-dry run the written taxonomy has a node for every domain
\* the papers use, and for every dotted key d.t they use a node named d whose
\* subdomains hold the key's token (t, or d.t with write_full_keys); every
\* reported addition is in the written file.
C3_WrittenHoldsAllUsed ==
    \A i \in 1..Len(syncLog) :
        ~syncLog[i].dry_run =>
            LET e == syncLog[i]
                Token(k) == IF e.write_full_keys THEN k ELSE SplitTail(k)
            IN  /\ CollectDomains(papers) \subseteq TaxNames(e.tax)
                /\ \A k \in CollectDotted(papers) :
                        <<SplitHead(k), Token(k)>> \in TaxEntries(e.tax)
                /\ SeqToSet(e.added_domains) \subseteq TaxNames(e.tax)
                /\ \A k \in SeqToSet(e.added_subs) :
                        <<SplitHead(k), Token(k)>> \in TaxEntries(e.tax)

---------------------------------------------------------------------------
(* Claims about the validator *)

Terminated == vpc \in {"done", "crashed", "taxcrash", "nofiles", "notax"}

FileErr(i, kind, key) == [file |-> i, kind |-> kind, key |-> key]

DSKinds == {"missing_domains", "domain_not_in_taxonomy", "prefix_mismatch",
            "subdomain_not_in_taxonomy", "value_type"}

\* what validate_domains_and_subdomains returned for file i
DSErrsOf(i) == {e \in SeqToSet(all_errors) : e.file = i /\ e.kind \in DSKinds}

ErrsOf(i) == {e \in SeqToSet(all_errors) : e.file = i}

\* the mapping documents the loop has been through
Checked == {i \in 1..vNext : IsMap(papers[i])}

\* the dotted keys a paper names in `subdomains` (keys of a mapping, items of
\* a list) or in the legacy `subdomain` string, whichever of them it has
KeysNamed(doc) ==
    {k \in {Strip(doc.subsV[i].k) : i \in {j \in 1..Len(doc.subsV) :
                                            doc.subsT \in {"dict", "list"}}}
           \cup (IF doc.subT = "str" THEN {Strip(doc.subV)} ELSE {}) : HasDot(k)}

\* the same, the legacy string counting only when `subdomains` is neither a
\* mapping nor a list
KeysRead(doc) ==
    {k \in (IF doc.subsT \in {"dict", "list"}
            THEN {Strip(doc.subsV[i].k) : i \in 1..Len(doc.subsV)}
            ELSE IF doc.subT = "str" THEN {Strip(doc.subV)} ELSE {}) : HasDot(k)}

\* key is registered under the node n: as a bare tail or as the full key
RegisteredAt(key, n) ==
    /\ n.hasName /\ n.name # <<>> /\ n.subsT = "list"
    /\ \E j \in 1..Len(n.subs) :
          Strip(n.subs[j]) # <<>>
          /\ (key = Strip(n.subs[j]) \/ key = n.name \o Dot \o Strip(n.subs[j]))

\* C4: every paper file is processed whatever earlier files hold, and the
\* errors are printed only after the last file, all together.
C4_EveryFileProcessed ==
    /\ printed # <<>> => vNext = Len(papers)
    /\ vpc \in {"done", "crashed"} => vNext = Len(papers) /\ printed = all_errors

\* C5: with schema and taxonomy present the exit status is 1 exactly when an
\* error was collected and 0 otherwise, for every set of paper files.
C5_ExitOneIffErrors ==
    (Terminated /\ taxFile.kind # "absent") =>
        /\ exitCode = 1 <=> all_errors # <<>>
        /\ exitCode = 0 <=> all_errors = <<>>

\* C5 amended: the exit status is 1 exactly when an error was collected, or
\* there is no paper file, or the run was aborted by an exception; it is 0
\* otherwise.
C5_ExitStatus ==
    (Terminated /\ taxFile.kind # "absent") =>
        /\ exitCode = 1 <=> ( \/ all_errors # <<>>
                              \/ papers = <<>>
                              \/ vpc \in {"crashed", "taxcrash"} )
        /\ exitCode = 0 <=> ~( \/ all_errors # <<>>
                               \/ papers = <<>>
                               \/ vpc \in {"crashed", "taxcrash"} )

C5_Witness ==
    /\ vpc = "done" /\ exitCode = 1 /\ Len(papers) = 2
    /\ ErrsOf(1) = {} /\ ErrsOf(2) # {}

\* a paper record with neither `domains` nor `domain`
LacksBoth(doc) == IsMap(doc) /\ doc.domainsT = "absent" /\ doc.domainT = "absent"

\* C6: a paper record with neither `domains` nor `domain` gets the error
\* "missing 'domains'" from validate_domains_and_subdomains, and a run over a
\* set that holds such a paper ends with exit status 1.
C6_MissingDomainsFails ==
    \A i \in 1..Len(papers) :
        LacksBoth(papers[i]) =>
            /\ i <= vNext => FileErr(i, "missing_domains", <<>>) \in SeqToSet(all_errors)
            /\ vpc = "done" => FileErr(i, "missing_domains", <<>>) \in SeqToSet(printed)
            /\ Terminated => exitCode = 1

C6_Witness ==
    /\ vpc = "done" /\ exitCode = 1 /\ Len(papers) = 2
    /\ ErrsOf(1) = {} /\ LacksBoth(papers[2])
    /\ FileErr(2, "missing_domains", <<>>) \in SeqToSet(printed)

\* C7: every dotted key x.y a paper names (mapping key, list item or legacy
\* string) with x not among its declared domains is reported as a
\* domain-prefix mismatch.
C7_EveryNamedKeyChecked ==
    \A i \in Checked :
        \A key \in KeysNamed(papers[i]) :
            SplitHead(key) \notin NormalizePaperDomains(papers[i])
            => FileErr(i, "prefix_mismatch", key) \in SeqToSet(all_errors)

\* C7 amended: the same for the keys of the `subdomains` mapping or list, and
\* for the legacy `subdomain` string only when the paper has no `subdomains`
\* mapping or list; whether the key is in the taxonomy plays no part.
C7_PrefixMismatchReported ==
    \A i \in Checked :
        \A key \in KeysRead(papers[i]) :
            SplitHead(key) \notin NormalizePaperDomains(papers[i])
            => FileErr(i, "prefix_mismatch", key) \in SeqToSet(all_errors)

C7_Witness ==
    \E i \in Checked :
        \E k1, k2 \in KeysRead(papers[i]) :
            /\ FileErr(i, "prefix_mismatch", k1) \in SeqToSet(all_errors)
            /\ FileErr(i, "subdomain_not_in_taxonomy", k1) \notin SeqToSet(all_errors)
            /\ FileErr(i, "prefix_mismatch", k2) \in SeqToSet(all_errors)
            /\ FileErr(i, "subdomain_not_in_taxonomy", k2) \in SeqToSet(all_errors)

\* C8: a paper without errors from validate_domains_and_subdomains has, for
\* every dotted key it names, the key's prefix among its declared domains and
\* among the taxonomy's domains, and the key registered under that domain.
C8_SoundUnderPrefix ==
    \A i \in Checked :
        DSErrsOf(i) = {} =>
            \A key \in KeysNamed(papers[i]) :
                /\ SplitHead(key) \in NormalizePaperDomains(papers[i])
                /\ SplitHead(key) \in TaxNames(taxFile)
                /\ \E n \in SeqToSet(taxFile.domains) :
                        n.name = SplitHead(key) /\ RegisteredAt(key, n)

\* C8 amended: for every dotted key the validator reads (KeysRead) the prefix
\* is among the declared domains and among the taxonomy's domains, and the
\* key is registered under some domain node of the taxonomy; that node is
\* the one named by the prefix when no domain name holds a dot.
C8_SoundSomewhere ==
    \A i \in Checked :
        DSErrsOf(i) = {} =>
            \A key \in KeysRead(papers[i]) :
                /\ SplitHead(key) \in NormalizePaperDomains(papers[i])
                /\ SplitHead(key) \in TaxNames(taxFile)
                /\ \E n \in SeqToSet(taxFile.domains) : RegisteredAt(key, n)
                /\ (\A m \in SeqToSet(taxFile.domains) : m.hasName => ~HasDot(m.name))
                   => \E n \in SeqToSet(taxFile.domains) :
                          n.name = SplitHead(key) /\ RegisteredAt(key, n)

C8_Witness ==
    \E i \in Checked :
        /\ DSErrsOf(i) = {}
        /\ \E key \in KeysRead(papers[i]) :
              \E n \in SeqToSet(taxFile.domains) :
                  n.name = SplitHead(key) /\ RegisteredAt(key, n)

\* C9: adding, removing or changing the value of an undotted subdomain key
\* leaves the list returned by validate_domains_and_subdomains unchanged.
C9_GroupKeyEditsIgnored == fnState = "recalled" => fnErrs = fnPrev

\* C9 amended: the same, except for a paper without `subdomains` that names a
\* dotted key in the legacy `subdomain` string: giving it a `subdomains`
\* mapping makes the validator stop reading the legacy string.
C9_GroupKeysNotValidated ==
    ( /\ fnState = "recalled"
      /\ ~(fnEdit = "create" /\ fnDoc.subT = "str" /\ HasDot(Strip(fnDoc.subV))) )
    => fnErrs = fnPrev

C9_Witness ==
    /\ fnState = "recalled" /\ fnEdit = "add" /\ fnErrs # <<>>
    /\ \E i \in GroupAt(fnDoc) : fnDoc.subsV[i].vt = "date"
    /\ \E i \in 1..Len(fnDoc.subsV) : HasDot(fnDoc.subsV[i].k)

---------------------------------------------------------------------------
(* Claims about the CSV exporter *)

\* the rows collect_rows returned for the paper at position i
RowsOf(i) == {rows[j] : j \in {k \in 1..Len(rows) : rows[k].paper = i}}

\* the domains a paper declares in `domains` or in the legacy `domain`
DeclaredEither(doc) ==
    (IF doc.domainsT = "list"
     THEN {Strip(doc.domainsV[i]) : i \in 1..Len(doc.domainsV)} \ {<<>>} ELSE {})
    \cup (IF doc.domainT = "str" THEN {Strip(doc.domainV)} ELSE {})

\* the domains of `domains` when it is a list, else the legacy `domain`
DeclaredListFirst(doc) ==
    IF doc.domainsT = "list"
    THEN {Strip(doc.domainsV[i]) : i \in 1..Len(doc.domainsV)} \ {<<>>}
    ELSE IF doc.domainT = "str" THEN {Strip(doc.domainV)}
    ELSE {}

\* a paper's subdomain keys: the keys of the `subdomains` mapping, the items
\* of the `subdomains` list, else the legacy `subdomain`
SubdomainKeys(doc) ==
    (IF doc.subsT \in {"dict", "list"}
     THEN {Strip(doc.subsV[i].k) : i \in 1..Len(doc.subsV)}
     ELSE IF doc.subT = "str" THEN {Strip(doc.subV)}
     ELSE {}) \ {<<>>}

\* the indicators attached to key s in the `subdomains` mapping (the last
\* entry of that key deciding)
Attached(doc, s) ==
    LET at == {i \in 1..Len(doc.subsV) : Strip(doc.subsV[i].k) = s}
    IN  IF doc.subsT # "dict" \/ at = {} THEN {}
        ELSE LET e == doc.subsV[CHOOSE i \in at : \A j \in at : j <= i]
             IN  IF e.vt = "list" THEN {Strip(e.v[i]) : i \in 1..Len(e.v)} \ {<<>>}
                 ELSE {}

\* the top-level indicators
TopLevel(doc) ==
    IF doc.indT = "list" THEN {Strip(doc.indV[i]) : i \in 1..Len(doc.indV)} \ {<<>>}
    ELSE {}

\* the rows the claim describes for one paper whose declared domains are D
ClaimRows(doc, paper, D) ==
    LET Ds == IF D = {} THEN {NoneStr} ELSE D
        Ss(d) == LET m == {s \in SubdomainKeys(doc) :
                              s = NoneStr \/ StartsWith(s, d \o Dot)}
                 IN  IF m = {} THEN {NoneStr} ELSE m
        Is(s) == IF Attached(doc, s) # {} THEN Attached(doc, s)
                 ELSE IF TopLevel(doc) # {} THEN TopLevel(doc)
                 ELSE {NoneStr}
    IN  UNION {UNION {{Row(d, s, ind, paper) : ind \in Is(s)} : s \in Ss(d)} : d \in Ds}

\* the papers the exporter does not skip
Exported == {i \in 1..Len(papers) : papers[i].kind \in {"map", "null"}}

---------------------------------------------------------------------------
(* Claims about the CSV file the exporter writes *)

\* the five domains the claim puts first, in its order
FixedFive ==
    << <<"c", "h", "e", "m", "i", "c", "a", "l">>,
       <<"p", "h", "y", "s", "i", "c", "a", "l">>,
       <<"c", "l", "i", "m", "a", "t", "e">>,
       <<"s", "o", "c", "i", "a", "l">>,
       <<"b", "u", "i", "l", "t">> >>

\* the place of a domain's category: 1..5 the fixed five, 6 any other domain,
\* 7 the sentinel
DomainRank(d) ==
    IF d = NoneStr THEN Len(FixedFive) + 2
    ELSE IF InSeq(d, FixedFive) THEN CHOOSE i \in 1..Len(FixedFive) : FixedFive[i] = d
    ELSE Len(FixedFive) + 1

\* d1 comes before d2 in the claim's order of domains; "alphabetical" is the
\* order of Python's sorted()
DomainBefore(d1, d2) ==
    \/ DomainRank(d1) < DomainRank(d2)
    \/ DomainRank(d1) = DomainRank(d2) /\ StrLess(d1, d2)

\* row a may stand before row b: by domain, then subdomain, indicator, paper
RowInOrder(a, b) ==
    \/ DomainBefore(a.domain, b.domain)
    \/ /\ a.domain = b.domain
       /\ \/ StrLess(a.subdomain, b.subdomain)
          \/ /\ a.subdomain = b.subdomain
             /\ \/ StrLess(a.indicator, b.indicator)
                \/ a.indicator = b.indicator /\ a.paper <= b.paper

\* C11: the CSV holds no two identical rows, is ordered by domain category
\* (the fixed five, then the other domains alphabetically, "(none)" last),
\* then by subdomain, indicator and paper, and holds every collected row, so
\* that every collected domain appears in it.
C11_CsvDedupedAndOrdered ==
    xpc = "written" =>
        /\ \A i, j \in 1..Len(csvOut) : i < j => csvOut[i] # csvOut[j]
        /\ \A i, j \in 1..Len(csvOut) : i < j => RowInOrder(csvOut[i], csvOut[j])
        /\ SeqToSet(csvOut) = SeqToSet(rows)
        /\ {csvOut[i].domain : i \in 1..Len(csvOut)} = {rows[i].domain : i \in 1..Len(rows)}

C11_Witness ==
    /\ xpc = "written"
    /\ Len(csvOut) < Len(rows)
    /\ \E i, j, k \in 1..Len(csvOut) :
          /\ i < j /\ j < k
          /\ csvOut[i].domain = sChemical
          /\ csvOut[j].domain = sBuilt
          /\ csvOut[k].domain = sA
    /\ \E i \in 1..Len(rows) : rows[i].domain = sBuilt /\ \A j \in 1..(i - 1) : rows[j].domain # sChemical

---------------------------------------------------------------------------
(* Claims about the mindmap exporter *)

\* the items of --domain-order as the user listed them
Listed == UserOrder(mmOrder)

\* C12: for every CSV content and every --domain-order list the categories
\* are the listed domains in the given order, then the unlisted domains of the
\* data in alphabetical order, then "(none)", which stands last and exactly
\* once; the sort succeeds and keeps every row.
C12_CategoriesAndSort ==
    (mmpc \in {"sorted", "crashed"} /\ Listed # <<>>) =>
        /\ SubSeq(mmCats, 1, Len(Listed)) = Listed
        /\ \A d \in Present(LoadCsv(mmCsv)) : InSeq(d, mmCats)
        /\ \A i, j \in (Len(Listed) + 1)..(Len(mmCats) - 1) :
                i < j => StrLess(mmCats[i], mmCats[j])
        /\ mmCats[Len(mmCats)] = NoneStr
        /\ Cardinality({i \in 1..Len(mmCats) : mmCats[i] = NoneStr}) = 1
        /\ mmpc = "sorted"
        /\ SeqToSet(mmDf) = SeqToSet(LoadCsv(mmCsv))

---------------------------------------------------------------------------
(* Claims about the migration helper *)

\* the rules whose pattern matches the lower-cased item
Matching(item) == {n \in 1..Len(RULES) : Search(RULES[n].alts, Lower(item))}

\* the bucket the claim gives an item under group key k: the key of the
\* lowest-indexed matching rule, k.UNMAPPED when no rule matches
Target(k, item) ==
    IF Matching(item) = {} THEN k \o Unmapped
    ELSE RULES[CHOOSE n \in Matching(item) : \A m \in Matching(item) : n <= m].key

\* the bucket of an item under the entry e: a dotted key is its own bucket
Dest(e, item) == IF HasDot(e.k) THEN e.k ELSE Target(e.k, item)

\* how many of the occurrences of item in the mapping belong in bucket b
Sources(doc, b, item) ==
    Cardinality({p \in (1..Len(doc.subs)) \X (1..3) :
                    /\ p[2] <= Len(EnsureList(doc.subs[p[1]]))
                    /\ EnsureList(doc.subs[p[1]])[p[2]] = item
                    /\ Dest(doc.subs[p[1]], item) = b})

\* how many times item stands in bucket b of the dict d
InBucket(d, b, item) ==
    Cardinality({i \in 1..Len(DictGet(d, b)) : DictGet(d, b)[i] = item})

\* the items of a mapping
ItemsOf(doc) == UNION {SeqToSet(EnsureList(doc.subs[i])) : i \in 1..Len(doc.subs)}

\* the file the migration loop is at
AtHand == migPapers[migNext + 1]

\* C13: the first matching rule wins, an item no rule matches goes to the
\* bucket k.UNMAPPED of its group key k: once the loop over the mapping has
\* placed the items, every bucket holds an item exactly as often as the item
\* stands under a group key that sends it there or under that dotted key.
C13_FirstRuleWins ==
    migPc = "buckets" =>
        \A item \in ItemsOf(AtHand) :
            \A b \in {migNormalized[i].k : i \in 1..Len(migNormalized)}
                     \cup {Dest(AtHand.subs[i], item) : i \in 1..Len(AtHand.subs)} :
                InBucket(migNormalized, b, item) = Sources(AtHand, b, item)

\* `PM2.5 exposure` under a group key is in chemical.airpollution.ambient
\* and the unmatched `foo`, twice under grp, is twice in grp.UNMAPPED
C13_Witness ==
    /\ migPc = "buckets"
    /\ GuessKey(iPm) = RULES[1].key
    /\ InBucket(migNormalized, RULES[1].key, iPm) = 1
    /\ GuessKey(iFoo) = NoKey
    /\ InBucket(migNormalized, sGrp \o Unmapped, iFoo) = 2
    /\ Len(migNormalized) = 3

---------------------------------------------------------------------------
(* More claims about the synchronizer *)

\* the taxonomy file as the i-th call left it
FileAfter(i) == IF i < Len(syncLog) THEN syncLog[i + 1].before ELSE taxFile

\* C14: a dry run leaves the taxonomy file as it was, absent included, and
\* reports the added domains and subdomains that a real run in the same mode
\* from the same taxonomy and papers reports; a dry run followed by a real
\* run reports the same additions twice.
C14_DryRunOnlyReports ==
    \A i \in 1..Len(syncLog) :
        syncLog[i].dry_run =>
            /\ FileAfter(i) = syncLog[i].before
            /\ \A j \in 1..Len(syncLog) :
                  ( /\ ~syncLog[j].dry_run
                    /\ syncLog[j].before = syncLog[i].before
                    /\ syncLog[j].write_full_keys = syncLog[i].write_full_keys )
                  => /\ syncLog[j].added_domains = syncLog[i].added_domains
                     /\ syncLog[j].added_subs = syncLog[i].added_subs

C14_Witness ==
    /\ Len(syncLog) = 2
    /\ syncLog[1].dry_run /\ ~syncLog[2].dry_run
    /\ syncLog[1].write_full_keys = syncLog[2].write_full_keys
    /\ syncLog[1].before = TaxAbsent /\ syncLog[2].before = TaxAbsent
    /\ syncLog[2].added_domains # <<>> /\ syncLog[2].added_subs # <<>>
    /\ syncLog[2].added_subs = syncLog[1].added_subs
    /\ taxFile # TaxAbsent

\* the sort key of a node: x.get("name", "")
NodeSortKey(n) == IF n.hasName THEN n.name ELSE <<>>

\* no entry of the list is repeated
NoRepeat(q) == \A i, j \in 1..Len(q) : q[i] = q[j] => i = j

\* the names of the list's nodes never go down
NamesAscend(nodes) ==
    \A i, j \in 1..Len(nodes) :
        i < j => ~StrLess(NodeSortKey(nodes[j]), NodeSortKey(nodes[i]))

\* the entries of the list never go down, letter case aside
AscendNoCase(q) == \A i, j \in 1..Len(q) : i < j => ~StrLess(Lower(q[j]), Lower(q[i]))

\* C16: the taxonomy written by a run that is no dry run has no two domain
\* nodes of one name, its nodes in ascending order of name, and in every
\* node a subdomains list without repeated entry, in ascending
\* case-insensitive order.
C16_WrittenDedupedSorted ==
    \A r \in 1..Len(syncLog) :
        ~syncLog[r].dry_run =>
            LET nodes == FileAfter(r).domains
            IN  /\ \A i, j \in 1..Len(nodes) :
                      ( /\ nodes[i].hasName = nodes[j].hasName
                        /\ nodes[i].name = nodes[j].name ) => i = j
                /\ NamesAscend(nodes)
                /\ \A i \in 1..Len(nodes) :
                      nodes[i].subsT = "list" =>
                          NoRepeat(nodes[i].subs) /\ AscendNoCase(nodes[i].subs)

\* a file with two nodes out of order and a repeated, unsorted subdomains
\* list comes out in order, a token added to the list
C16_Witness ==
    \E r \in 1..Len(syncLog) :
        /\ ~syncLog[r].dry_run
        /\ ~NamesAscend(syncLog[r].before.domains)
        /\ \E i \in 1..Len(syncLog[r].before.domains) :
              /\ syncLog[r].before.domains[i].subsT = "list"
              /\ ~NoRepeat(syncLog[r].before.domains[i].subs)
              /\ ~AscendNoCase(syncLog[r].before.domains[i].subs)
        /\ syncLog[r].added_subs # <<>>
        /\ \E i \in 1..Len(FileAfter(r).domains) : Len(FileAfter(r).domains[i].subs) >= 3

---------------------------------------------------------------------------
(* An unreadable paper file *)

Unreadable(i) == papers[i].kind = "unreadable"

\* the paper files that can be read, in path order
Readable == SelectSeq(papers, LAMBDA d : d.kind # "unreadable")

\* C15 as stated: a paper file that cannot be read as YAML ends the
\* invocation at once: the validator processes no later paper file and exits
\* with a non-zero status, and the synchronizer writes no taxonomy file.
C15_UnreadableIsFatal ==
    /\ \A i \in 1..Len(papers) :
          Unreadable(i) /\ i <= vNext => vNext = i /\ exitCode # 0
    /\ \A r \in 1..Len(syncLog) :
          (\E i \in 1..Len(papers) : Unreadable(i)) =>
              FileAfter(r) = syncLog[r].before

\* C15: a paper file that cannot be read as YAML is skipped, the invocation
\* goes on. The validator records one "cannot read YAML" error for the file
\* and nothing else, checks the later files as usual (a later paper without
\* `domains` and `domain` gets its "missing 'domains'" error), and when the
\* loop is over prints the error and exits with status 1. The synchronizer
\* reports and writes what it would for the readable files alone, and a run
\* that is no dry run writes the taxonomy file.
C15_UnreadableIsSkipped ==
    /\ \A i \in 1..Len(papers) :
          Unreadable(i) =>
              /\ i <= vNext => ErrsOf(i) = {FileErr(i, "unreadable", <<>>)}
              /\ \A j \in (i + 1)..vNext :
                    LacksBoth(papers[j]) =>
                        FileErr(j, "missing_domains", <<>>) \in SeqToSet(all_errors)
              /\ vpc = "done" =>
                    /\ vNext = Len(papers)
                    /\ FileErr(i, "unreadable", <<>>) \in SeqToSet(printed)
                    /\ exitCode = 1
    /\ \A r \in 1..Len(syncLog) :
          LET alone == SyncTaxonomy(syncLog[r].before, Readable,
                                    syncLog[r].write_full_keys)
          IN  /\ syncLog[r].added_domains = alone.added_domains
              /\ syncLog[r].added_subs = alone.added_subs
              /\ ~syncLog[r].dry_run =>
                    FileAfter(r) = alone.tax /\ FileAfter(r).kind = "dict"

\* the first file is unreadable; the synchronizer has written the domain of
\* the second into an absent taxonomy file, and the validator has been through
\* both files and has exited with status 1
C15_Witness ==
    /\ Len(papers) = 2
    /\ Unreadable(1)
    /\ LacksBoth(papers[2]) \/ papers[2].domainsT = "list"
    /\ Len(syncLog) = 1
    /\ ~syncLog[1].dry_run
    /\ syncLog[1].before.kind = "absent"
    /\ taxFile.kind = "dict"
    /\ vpc = "done"
    /\ vNext = 2
    /\ exitCode = 1
    /\ FileErr(1, "unreadable", <<>>) \in SeqToSet(printed)

---------------------------------------------------------------------------
(* The synchronizer, then the validator *)

\* the taxonomy file is the one a run that was no dry run wrote, starting
\* from an absent or empty taxonomy
SyncedFromScratch ==
    \E r \in 1..Len(syncLog) :
        /\ ~syncLog[r].dry_run
        /\ syncLog[r].before.kind = "absent" \/ syncLog[r].before = TaxDict(<<>>)
        /\ taxFile = syncLog[r].tax

\* C17: after a sync_taxonomy that is no dry run, in tail mode or in
\* full-key mode, starting from an empty or absent taxonomy, the validator
\* reports no "domain not in taxonomy" and no "subdomain not in taxonomy"
\* error for any paper, also for a key d.t whose tail t begins with `d.`.
C17_SyncThenValidateClean ==
    SyncedFromScratch =>
        \A k \in 1..Len(all_errors) :
            all_errors[k].kind \notin {"domain_not_in_taxonomy", "subdomain_not_in_taxonomy"}

---------------------------------------------------------------------------
(* The migration helper and strip_subdomains_normalized *)

\* the papers whose `subdomains` was a mapping before the migration
WithMapping == {i \in 1..Len(migBefore) :
                   migBefore[i].kind = "map" /\ migBefore[i].subsT = "dict"}

\* the invocation of migrate_subdomains is over
MigOver == migPc \in {"done", "crashed"}

\* how often item should stand in bucket b: once when an occurrence of the
\* item belongs there, repeats inside a bucket being dropped
Kept(doc, b, item) == IF Sources(doc, b, item) > 0 THEN 1 ELSE 0

\* C18: the migration only adds `subdomains_normalized`: for every paper
\* whose `subdomains` is a mapping, the mapping and the other fields are as
\* before, every item under a dotted key is in the bucket of that key and
\* every item under a group key in exactly one bucket, repeats inside one
\* bucket aside, and after strip_subdomains_normalized the document is what
\* it was before the migration.
C18_MigrationOnlyAdds ==
    \A i \in WithMapping :
        /\ MigOver =>
              /\ migPapers[i].kind = migBefore[i].kind
              /\ migPapers[i].subsT = migBefore[i].subsT
              /\ migPapers[i].subs = migBefore[i].subs
              /\ migPapers[i].hasNorm
              /\ \A item \in ItemsOf(migBefore[i]) :
                    \A b \in {migPapers[i].norm[n].k : n \in 1..Len(migPapers[i].norm)}
                             \cup {Dest(migBefore[i].subs[n], item) :
                                      n \in 1..Len(migBefore[i].subs)} :
                        InBucket(migPapers[i].norm, b, item) = Kept(migBefore[i], b, item)
        /\ migPc = "stripped" => migPapers[i] = migBefore[i]

---------------------------------------------------------------------------
(* The exporter's flag --only-dotted *)

\* the subdomain keys a paper uses, stripped: the keys of the mapping, the
\* items of the list, the legacy string
UsedKeys(doc) ==
    IF ~IsMap(doc) THEN {}
    ELSE {Strip(doc.subsV[i].k) :
             i \in {j \in 1..Len(doc.subsV) : doc.subsT \in {"dict", "list"}}}
         \cup (IF doc.subT = "str" THEN {Strip(doc.subV)} ELSE {})

\* no paper uses the literal subdomain key `(none)`
NoLiteralNone == \A i \in 1..Len(papers) : NoneStr \notin UsedKeys(papers[i])

\* C19: --only-dotted only drops undotted subdomain keys, which never reach
\* the output: over papers of which none uses the literal key `(none)`,
\* collect_rows returns the same rows with the flag and without it, and in
\* both modes the subdomain of every row is `(none)` or a key with a dot.
C19_OnlyDottedSameRows ==
    xpc \in {"collected", "written"} =>
        /\ NoLiteralNone => rows = CollectRowsFrom(papers, 1, ~xOnlyDotted)
        /\ \A k \in 1..Len(rows) :
              rows[k].subdomain = NoneStr \/ "." \in SeqToSet(rows[k].subdomain)

\* rows collected with the flag over papers that use an undotted key: one
\* beside a dotted key of the paper's domain, one alone with indicators
C19_Witness ==
    /\ xpc = "collected"
    /\ xOnlyDotted
    /\ NoLiteralNone
    /\ Len(papers) = 2
    /\ UsedKeys(papers[1]) = {kAM, sGrp}
    /\ UsedKeys(papers[2]) = {sGrp}
    /\ \E k \in 1..Len(rows) : rows[k].paper = 1 /\ rows[k].subdomain = kAM
    /\ \E k \in 1..Len(rows) : rows[k].paper = 2 /\ rows[k].subdomain = NoneStr

====
